---- MODULE Spec2Model ----
(***************************************************************************)
(* The New York Fed connector: the batch runner of src/src/main.py, the    *)
(* ingest modules of src/src/ingest (watermark, date-range chunking, raw   *)
(* capture) and the transforms of src/src/transforms (normalize, validate, *)
(* upload, publish).                                                       *)
(*                                                                         *)
(* Dates are day numbers, day 0 being 2020-01-01.  A date STRING (a JSON   *)
(* field, a stored watermark) is a record [fmt, day]: fmt "iso" is a       *)
(* well-formed %Y-%m-%d text of that day, "mdy" the same day written       *)
(* MM/DD/YYYY, "bad" an unparsable text, "empty" the empty string and      *)
(* "none" a missing key / None.  A parsed date is a record [some, day].    *)
(***************************************************************************)
EXTENDS Integers, Sequences, FiniteSets, TLC

\* ------------------------------------------------------------------ bounds
\* The first day on which the batch runs (2020-04-10).
Today0 == 100
\* How many days the clock may advance over a behaviour.
MaxDays == 1
\* How many batch runs (invocations of main) a behaviour holds.
MaxRuns == 2
\* How many responses of the API may hold items outside the requested range.
MaxStray == 1
\* How many calls of an external service (an API request, a store write, an
\* upload, a publish) may raise over a behaviour.
MaxFaults == 1
\* The chunk specification: the latest day of a run and the latest stored
\* watermark it starts from.
MaxEnd == 185
MaxMark == 3
\* The items of a stored capture given to a normalizer: at most MaxItems blocks.
MaxItems == 2
\* The series whose fetch fails in one primary dealer ingest.
MaxSeriesFailed == 1

\* ------------------------------------------------------- program constants
\* timedelta(days=89): a chunk holds its start and the 89 following days.
ChunkDays == 89
\* datetime(2020, 1, 1): the default start of the operation sources.
OperationsDefaultStart == 0
\* datetime(2018, 4, 3): the default start of the reference rates.
RatesDefaultStart == -638
\* "min_rows" of the validation specs.
MinRows == 10
\* @retry(stop=stop_after_attempt(3), ...) on the fetchers of the operation
\* sources.
MaxAttempts == 3

\* The sources of the batch, in the order main() runs them (one module per
\* kind of ingest and of transform).
Order == <<"reference_rates", "ambs_operations", "treasury_operations">>
Sources == {Order[i] : i \in 1..Len(Order)}
Chunked == {"ambs_operations", "treasury_operations"}

Min(a, b) == IF a <= b THEN a ELSE b

\* --------------------------------------------------------------- dates
Iso(d) == [fmt |-> "iso", day |-> d]
NoneStr == [fmt |-> "none", day |-> 0]
EmptyStr == [fmt |-> "empty", day |-> 0]
BadStr == [fmt |-> "bad", day |-> 0]
Date(d) == [some |-> TRUE, day |-> d]
NoneDate == [some |-> FALSE, day |-> 0]

\* Python truthiness of an optional string: None and "" are falsy.
Truthy(s) == s.fmt \notin {"none", "empty"}
\* datetime.strptime(s, "%Y-%m-%d") returns (TRUE) or raises ValueError.
StrptimeOk(s) == s.fmt = "iso"
Strptime(s) == s.day
\* date.strftime("%Y-%m-%d")
Strftime(d) == Iso(d)

\* ------------------------------------------------------------- numbers
\* A numeric JSON value: fmt "plain" is a number or its plain text, "commas" a
\* text with thousands separators, "na" the text NA, "empty" the empty string,
\* "none" a missing key / None and "junk" a text float() rejects.
Plain(v) == [fmt |-> "plain", val |-> v]
NoneNum == [fmt |-> "none", val |-> 0]
Num(v) == [some |-> TRUE, val |-> v]
NoneVal == [some |-> FALSE, val |-> 0]

\* utils.parse_date: tries %Y-%m-%d, then %m/%d/%Y; None when neither parses.
ParseDateUtils(s) ==
    IF ~Truthy(s) THEN NoneDate
    ELSE IF s.fmt \in {"iso", "mdy"} THEN Date(s.day)
    ELSE NoneDate

\* transforms/ambs_operations parse_date: None for a falsy text, else strptime,
\* which raises ValueError on any text that is not %Y-%m-%d.
ParseDateStrictRaises(s) == Truthy(s) /\ ~StrptimeOk(s)
ParseDateStrict(s) == IF ~Truthy(s) THEN NoneDate ELSE Date(Strptime(s))

\* parse_number: None for None, "" and "NA"; commas stripped; None when
\* float() raises.
ParseNumber(v) ==
    IF v.fmt \in {"none", "empty", "na"} THEN NoneVal
    ELSE IF v.fmt \in {"plain", "commas"} THEN Num(v.val)
    ELSE NoneVal

\* float(text): returns for a plain number, raises ValueError for any other
\* text (a text with commas, "NA", the empty text, junk).
FloatOk(v) == v.fmt = "plain"
\* transforms/soma_holdings parse_number: None for None, "" and "NA"; float()
\* of the value as it is, None when it raises.
SomaParseNumber(v) ==
    IF v.fmt \in {"none", "empty", "na"} THEN NoneVal
    ELSE IF FloatOk(v) THEN Num(v.val)
    ELSE NoneVal
\* transforms/primary_dealer_stats parse_value: None for None; float(value) /
\* 1000.0, None when float() raises.
ParseValue(v) ==
    IF v.fmt = "none" THEN NoneVal
    ELSE IF FloatOk(v) THEN [some |-> TRUE, val |-> v.val, per |-> 1000]
    ELSE NoneVal

\* The numeric parser of each module that has one.
NumberParsers ==
    {"utils", "ambs_operations", "securities_lending", "soma_holdings",
     "primary_dealer_stats"}
ParseNumberOf(p, v) ==
    CASE p \in {"utils", "ambs_operations", "securities_lending"} -> ParseNumber(v)
      [] p = "soma_holdings" -> SomaParseNumber(v)
      [] p = "primary_dealer_stats" -> ParseValue(v)

\* ------------------------------------------------------------ booleans
\* A Python value given to parse_bool: None, a str, a bool or an int, with
\* the characters of str(value).
NoneValue == [kind |-> "none", text |-> <<>>]
Str(text) == [kind |-> "str", text |-> text]
PyBool(b) ==
    [kind |-> "bool",
     text |-> IF b THEN <<"T", "r", "u", "e">> ELSE <<"F", "a", "l", "s", "e">>]
PyInt(n) == [kind |-> "int", text |-> <<ToString(n)>>]
Bool(b) == [some |-> TRUE, val |-> b]
NoneBool == [some |-> FALSE, val |-> FALSE]

UpperCase ==
    <<"A", "B", "C", "D", "E", "F", "G", "H", "I", "J", "K", "L", "M",
      "N", "O", "P", "Q", "R", "S", "T", "U", "V", "W", "X", "Y", "Z">>
LowerCase ==
    <<"a", "b", "c", "d", "e", "f", "g", "h", "i", "j", "k", "l", "m",
      "n", "o", "p", "q", "r", "s", "t", "u", "v", "w", "x", "y", "z">>
\* str.lower()
LowerChar(c) ==
    IF \E i \in 1..Len(UpperCase) : UpperCase[i] = c
    THEN LowerCase[CHOOSE i \in 1..Len(UpperCase) : UpperCase[i] = c]
    ELSE c
Lower(text) == [i \in DOMAIN text |-> LowerChar(text[i])]

\* The list ['true', '1', 'yes'] of parse_bool.
TrueTexts == {<<"t", "r", "u", "e">>, <<"1">>, <<"y", "e", "s">>}

ParseBoolCaseSensitive(v) ==
    IF v.kind = "none" \/ (v.kind = "str" /\ v.text = <<>>) THEN NoneBool
    ELSE Bool(v.text \in TrueTexts)
\* utils.parse_bool (and the copy in transforms/fx_swaps): None for None and
\* ""; else whether str(value).lower() is in the list.
ParseBool(v) ==
    IF v.kind = "none" \/ (v.kind = "str" /\ v.text = <<>>) THEN NoneBool
    ELSE Bool(Lower(v.text) \in TrueTexts)
BoolParsers == {"utils.parse_bool", "fx_swaps.parse_bool"}
\* ------------------------------------------------- what the API can return
\* The API files each batch of items under the days [lo, hi] it covers; a
\* request for [startDate, endDate] is answered with batches inside it.
Copies(n, x) == [i \in 1..n |-> x]

Auction(id, date, status, details) ==
    [operationId |-> id, operationDate |-> date, auctionStatus |-> status,
     totalAmtAcceptedPar |-> Plain(7), details |-> details]

AmbsDetailOf(desc) == [securityDescription |-> desc, amtAcceptedPar |-> Plain(3)]
AmbsDetail == AmbsDetailOf("FNCL 2.5")
TsyDetail(par) ==
    [cusip |-> "912828ZQ6", securityDescription |-> "T-Note",
     parAmountAccepted |-> par]
Rate(date, type, pct) ==
    [effectiveDate |-> date, type |-> type, percentRate |-> pct]

Batch(lo, hi, items) == [lo |-> lo, hi |-> hi, items |-> items]
One(day, item) == Batch(day, day, <<item>>)

Catalog(endpoint) ==
    CASE endpoint = "ambs_operations" ->
           << One(Today0 - 5, Auction("A1", Iso(Today0 - 5), "Results",
                                      Copies(MinRows, AmbsDetail))),
              One(Today0 - 2, Auction("A2", Iso(Today0 - 2), "Scheduled", <<>>)),
              One(Today0, Auction("A3", Iso(Today0), "Results", <<>>)),
              One(Today0 + 1, Auction("A4", Iso(Today0 + 1), "Results",
                                      Copies(MinRows, AmbsDetail))) >>
      [] endpoint = "treasury_operations" ->
           << One(Today0 - 5, Auction("T1", Iso(Today0 - 5), "Results",
                                      Copies(MinRows, TsyDetail(Plain(5))))),
              One(Today0 - 2, Auction("T2", NoneStr, "Results", <<>>)),
              One(Today0, Auction("T3", Iso(Today0), "Results",
                                  <<TsyDetail(Plain(0))>>)) >>
      [] endpoint = "reference_rates" ->
           << Batch(Today0 - MinRows, Today0 - 1,
                    [i \in 1..MinRows |->
                        Rate(Iso(Today0 - MinRows - 1 + i), "EFFR", Plain(5))]),
              One(Today0, Rate(Iso(Today0), "EFFR", Plain(5))) >>
      [] endpoint = "reference_rates_secured" ->
           << One(Today0 - 1, Rate(Iso(Today0 - 1), "SOFR", Plain(5))),
              One(Today0 - 1, Rate(Iso(Today0 - 1), "SOFRAI", Plain(5))) >>

\* The items of the batches of cat whose index is in idx, in catalog order.
RECURSIVE Pick(_, _, _)
Pick(cat, idx, i) ==
    IF i > Len(cat) THEN <<>>
    ELSE (IF i \in idx THEN cat[i].items ELSE <<>>) \o Pick(cat, idx, i + 1)

InRange(b, cs, ce) == cs <= b.lo /\ b.hi <= ce

\* ----------------------------------------------------------- normalizers
\* transforms/ambs_operations run(): the rows of one auction.  A "Results"
\* auction yields one row per detail, or one "Aggregate" row without details.
AmbsRaises(a) ==
    a.auctionStatus = "Results" /\ ParseDateStrictRaises(a.operationDate)
AmbsRowsNoAggregate(a) ==
    IF a.auctionStatus # "Results" THEN <<>>
    ELSE [i \in 1..Len(a.details) |->
            [operation_date |-> ParseDateStrict(a.operationDate),
             operation_id |-> a.operationId,
             security_description |-> a.details[i].securityDescription,
             amount_accepted_par |-> ParseNumber(a.details[i].amtAcceptedPar)]]
AmbsRows(a) ==
    IF a.auctionStatus # "Results" THEN <<>>
    ELSE IF a.details # <<>>
    THEN [i \in 1..Len(a.details) |->
            [operation_date |-> ParseDateStrict(a.operationDate),
             operation_id |-> a.operationId,
             security_description |-> a.details[i].securityDescription,
             amount_accepted_par |-> ParseNumber(a.details[i].amtAcceptedPar)]]
    ELSE << [operation_date |-> ParseDateStrict(a.operationDate),
             operation_id |-> a.operationId,
             security_description |-> "Aggregate",
             amount_accepted_par |-> ParseNumber(a.totalAmtAcceptedPar)] >>

\* transforms/treasury_operations run(): one row per detail whose accepted par
\* parses to a non-zero number.
RECURSIVE TsyDetailRows(_, _, _)
TsyDetailRows(a, details, i) ==
    IF i > Len(details) THEN <<>>
    ELSE LET par == ParseNumber(details[i].parAmountAccepted)
         IN  (IF ~par.some \/ par.val = 0 THEN <<>>
              ELSE << [operation_date |-> ParseDateUtils(a.operationDate),
                       operation_id |-> a.operationId,
                       cusip |-> details[i].cusip,
                       security_description |-> details[i].securityDescription,
                       par_amount_accepted |-> par] >>)
             \o TsyDetailRows(a, details, i + 1)
TsyRows(a) ==
    IF a.auctionStatus # "Results" THEN <<>>
    ELSE TsyDetailRows(a, a.details, 1)

\* transforms/reference_rates process_rate_record: None for an unknown type.
ValidRateTypes == {"EFFR", "OBFR", "SOFR", "BGCR", "TGCR"}
RateRows(r) ==
    IF r.type \notin ValidRateTypes THEN <<>>
    ELSE << [date |-> ParseDateUtils(r.effectiveDate),
             rate_type |-> r.type,
             rate |-> ParseNumber(r.percentRate)] >>

ItemRaises(s, item) == s = "ambs_operations" /\ AmbsRaises(item)
ItemRows(s, item) ==
    CASE s = "ambs_operations" -> AmbsRows(item)
      [] s = "treasury_operations" -> TsyRows(item)
      [] s = "reference_rates" -> RateRows(item)

RECURSIVE Flatten(_, _, _)
Flatten(s, items, i) ==
    IF i > Len(items) THEN <<>>
    ELSE ItemRows(s, items[i]) \o Flatten(s, items, i + 1)

\* The records list a transform builds from a stored capture: the first list
\* of the capture, then (reference rates) the secured list.
NormalizeRaises(s, cap) ==
    \E i \in 1..Len(cap.items) : ItemRaises(s, cap.items[i])
Normalize(s, cap) ==
    Flatten(s, cap.items, 1) \o Flatten(s, cap.secured, 1)

\* The date column each validation spec declares first in "not_null".
RowDate(s, row) == IF s = "reference_rates" THEN row.date ELSE row.operation_date

\* test(table): validate() with the declared not_null columns and min_rows,
\* and for the reference rates assert_in_range(table, "rate", -1, 20).
NotNullOk(s, row) ==
    CASE s = "ambs_operations" -> row.operation_date.some
      [] s = "treasury_operations" ->
           row.operation_date.some /\ row.par_amount_accepted.some
      [] s = "reference_rates" ->
           /\ row.date.some
           /\ row.rate.some
           /\ row.rate.val >= -1
           /\ row.rate.val <= 20
TestPasses(s, table) ==
    /\ Len(table) >= MinRows
    /\ \A i \in 1..Len(table) : NotNullOk(s, table[i])

\* ------------------------------------------------------------------ state
VARIABLES
    today,      \* datetime.now().date()
    state,      \* the state store: source -> stored "last_date" text (or none)
    raw,        \* the raw store: source -> stored capture
    uploaded,   \* the publisher: dataset -> the uploads [table, mode] it took
    published,  \* the publisher: dataset -> number of publish() calls
    args,       \* the run mode of the current invocation of main()
    pc,         \* where main() is: [phase, idx, step]
    loc,        \* the locals of the running ingest or transform
    run,        \* what the current invocation did so far (history)
    runs,       \* invocations of main() so far
    stray,      \* responses so far that held items outside the requested range
    faults,     \* external calls that raised so far
    feed,       \* the source the API has data for in this behaviour
    pd,         \* the primary dealer ingest: its locals, tasks and stores
    call,       \* a call of a parsing helper: its argument and what it returned
    soma        \* the SOMA holdings ingest: its locals, the answers and stores

vars == <<today, state, raw, uploaded, published, args, pc, loc, run, runs,
          stray, faults, feed, pd, call, soma>>

Modes == {"full", "ingest_only", "transform_only"}

NoCapture ==
    [present |-> FALSE, items |-> <<>>, secured |-> <<>>,
     start_date |-> NoneStr, end_date |-> NoneStr]

NoLocals ==
    [start_date |-> 0, end_date |-> 0, current_start |-> 0,
     items |-> <<>>, secured |-> <<>>, chunks |-> <<>>, table |-> <<>>,
     attempt |-> 0, last_error |-> "", in_flight |-> 0]

\* SERIES_CODES of the primary dealer ingest, by position.
NumSeries == 10
Series == 1..NumSeries

PdNoCapture ==
    [present |-> FALSE, series_data |-> <<>>, last_week_filter |-> NoneStr]

\* The primary dealer ingest before run() is entered: the coroutines of the
\* series ("none": not created), the index i of the series awaited, the
\* attempts made of the request in flight, the results so far, the series
\* whose fetch failed, and the stores state ("last_week") and raw.
PdIdle ==
    [step |-> "idle", last_week |-> NoneStr,
     tasks |-> [k \in Series |-> "none"], i |-> 0, attempt |-> 0,
     results |-> <<>>, failed |-> {}, max_date |-> NoneDate,
     state |-> NoneStr, raw |-> PdNoCapture, raised |-> "",
     mode |-> "ingest_only", table |-> <<>>, uploads |-> <<>>, published |-> 0,
     missed |-> {}]

\* The SOMA holdings ingest is not running: nothing stored, nothing written.
SomaIdle ==
    [step |-> "idle", state |-> NoneStr,
     raw |-> [present |-> FALSE, summary |-> <<>>, as_of |-> NoneStr],
     last_date |-> NoneStr, latest_data |-> "", summary |-> <<>>,
     current_date |-> NoneStr, attempt |-> 0, writes |-> <<>>, raised |-> ""]

\* No parsing helper is being called.
NoCall == [fn |-> "", arg |-> NoneNum, done |-> FALSE, out |-> NoneVal]

NoFailure == [src |-> "", stage |-> "", kind |-> "", attempts |-> 0]

FreshRun ==
    [state0 |-> state, raw0 |-> raw,
     fetches |-> [s \in Sources |-> 0],
     got |-> [s \in Sources |-> 0],
     saves |-> [s \in Sources |-> 0],
     uploads |-> [s \in Sources |-> 0],
     publishes |-> [s \in Sources |-> 0],
     empty |-> [s \in Sources |-> FALSE],
     ingested |-> [s \in Sources |-> FALSE],
     tested |-> [s \in Sources |-> FALSE],
     failed |-> NoFailure]

Init ==
    /\ today = Today0
    /\ state = [s \in Sources |-> NoneStr]
    /\ raw = [s \in Sources |-> NoCapture]
    /\ uploaded = [s \in Sources |-> <<>>]
    /\ published = [s \in Sources |-> 0]
    /\ args = "full"
    /\ pc = [phase |-> "idle", idx |-> 0, step |-> ""]
    /\ loc = NoLocals
    /\ run = FreshRun
    /\ runs = 0
    /\ stray = 0
    /\ faults = 0
    /\ pd = PdIdle
    /\ call = NoCall
    /\ soma = SomaIdle
    /\ feed \in Sources

\* ------------------------------------------------------------------- main
At(phase, i, step) == [phase |-> phase, idx |-> i, step |-> step]
Done == At("done", 0, "")
Failed == At("failed", 0, "")

\* main(): should_ingest = not args.transform_only,
\*         should_transform = not args.ingest_only.
IngestInEveryMode(mode) == TRUE
ShouldIngest(mode) == mode # "transform_only"
ShouldTransform(mode) == mode # "ingest_only"

UploadBeforeTest == <<"upload", "test", "publish">>
\* The steps of a transform after it built its records, in program order:
\* test(table), upload_data(table, DATASET_ID), publish(DATASET_ID, METADATA).
TransformSteps == <<"test", "upload", "publish">>

FirstTransform(mode) ==
    IF ShouldTransform(mode) THEN At("transform", 1, "load") ELSE Done
FirstStep(mode) ==
    IF ShouldIngest(mode) THEN At("ingest", 1, "resolve") ELSE FirstTransform(mode)
AfterIngestInterleaved(i) ==
    IF ShouldTransform(args) THEN At("transform", i, "load")
    ELSE IF i < Len(Order) THEN At("ingest", i + 1, "resolve") ELSE Done
\* Where main() goes when the ingest (the transform) of source i returns.
AfterIngest(i) ==
    IF i < Len(Order) THEN At("ingest", i + 1, "resolve") ELSE FirstTransform(args)
AfterTransform(i) ==
    IF i < Len(Order) THEN At("transform", i + 1, "load") ELSE Done
\* Where a transform goes after its step number k.
AfterTransformStep(i, k) ==
    IF k < Len(TransformSteps) THEN At("transform", i, TransformSteps[k + 1])
    ELSE AfterTransform(i)

RaiseLogged(s, stage) ==
    /\ pc' = Done
    /\ loc' = NoLocals
    /\ run' = [run EXCEPT !.failed = [NoFailure EXCEPT !.src = s,
                                                       !.stage = stage]]
\* An exception leaves main(): the process ends with a traceback.
Raise(s, stage) ==
    /\ pc' = Failed
    /\ loc' = NoLocals
    /\ run' = [run EXCEPT !.failed = [NoFailure EXCEPT !.src = s,
                                                       !.stage = stage]]

\* The same for an exception raised by an external call.
Fault(s, stage) ==
    /\ faults < MaxFaults
    /\ faults' = faults + 1
    /\ Raise(s, stage)

\* python main.py [--ingest-only | --transform-only], on the same or a later day.
StartRun(mode, adv) ==
    /\ pc.phase \in {"idle", "done", "failed"}
    /\ runs < MaxRuns
    /\ today + adv <= Today0 + MaxDays
    /\ today' = today + adv
    /\ args' = mode
    /\ pc' = FirstStep(mode)
    /\ loc' = NoLocals
    /\ run' = FreshRun
    /\ runs' = runs + 1
    /\ UNCHANGED <<state, raw, uploaded, published, stray, faults, feed, pd, call, soma>>

\* ----------------------------------------------------------------- ingest
DefaultStart(s) ==
    IF s = "reference_rates" THEN RatesDefaultStart ELSE OperationsDefaultStart

ResolveStartAtMark(s, last_date) ==
    IF Truthy(last_date) THEN Strptime(last_date) ELSE DefaultStart(s)
\* start_date: the day after the stored last_date, or the default start.
ResolveStart(s, last_date) ==
    IF Truthy(last_date) THEN Strptime(last_date) + 1 ELSE DefaultStart(s)
\* end_date: today, or yesterday for the reference rates (1-day lag).
ResolveEnd(s, now) == IF s = "reference_rates" THEN now - 1 ELSE now

NeverEmptyRange(start, end) == FALSE
\* if start_date > end_date: return
IsEmptyRange(start, end) == start > end

ChunkEndShort(current_start, end_date) ==
    Min(current_start + ChunkDays - 1, end_date)
ChunkEndTooLong(current_start, end_date) ==
    Min(current_start + ChunkDays + 1, end_date)
\* chunk_end = min(current_start + timedelta(days=89), end_date)
ChunkEnd(current_start, end_date) == Min(current_start + ChunkDays, end_date)
NextStartSkipsDay(chunk_end) == chunk_end + 2
\* current_start = chunk_end + timedelta(days=1)
NextStart(chunk_end) == chunk_end + 1

\* What the API may answer to a request of source s for [cs, ce] at endpoint
\* ep: any selection of the batches inside the range, or (at most MaxStray
\* times) a batch outside it.
InIdx(cat, cs, ce) == {i \in 1..Len(cat) : InRange(cat[i], cs, ce)}
Answers(s, ep, cs, ce) ==
    LET cat == Catalog(ep)
        inr == InIdx(cat, cs, ce)
    IN  IF s # feed THEN {[items |-> <<>>, stray |-> 0]}
        ELSE {[items |-> Pick(cat, idx, 1), stray |-> 0] : idx \in SUBSET inr}
             \cup
             (IF stray < MaxStray
              THEN {[items |-> cat[i].items, stray |-> 1] :
                        i \in (1..Len(cat)) \ inr}
              ELSE {})

Running(phase, s, step) ==
    /\ pc.phase = phase
    /\ pc.step = step
    /\ Order[pc.idx] = s

StorageKeyShared(s, call_name) ==
    IF s \in Chunked THEN "ambs_operations" ELSE "reference_rates"
\* The name each module passes to load_state, save_raw_json and save_state
\* (ingest) and to load_raw_json (transform).
StorageKey(s, call_name) ==
    CASE s = "reference_rates" -> "reference_rates"
      [] s = "ambs_operations" -> "ambs_operations"
      [] s = "treasury_operations" -> "treasury_operations"

\* run(), up to the fetch loop: load_state, resolve the range, return when
\* it is empty.
IngestResolve(s) ==
    /\ Running("ingest", s, "resolve")
    /\ LET start_date == ResolveStart(s, state[StorageKey(s, "load_state")])
           end_date == ResolveEnd(s, today)
       IN  IF IsEmptyRange(start_date, end_date)
           THEN /\ pc' = AfterIngest(pc.idx)
                /\ run' = [run EXCEPT !.empty[s] = TRUE, !.ingested[s] = TRUE]
                /\ loc' = NoLocals
           ELSE /\ pc' = At("ingest", pc.idx, "loop")
                /\ loc' = [NoLocals EXCEPT !.start_date = start_date,
                                           !.end_date = end_date,
                                           !.current_start = start_date]
                /\ UNCHANGED run
    /\ UNCHANGED <<today, state, raw, uploaded, published, args, runs, stray, faults, feed, pd, call, soma>>

\* The ways a request can fail: a transport error (timeout, connection
\* reset), raise_for_status() on a 5xx or on a 4xx status, response.json() on a
\* body that is not JSON.
FetchErrors == {"transport", "status_5xx", "status_4xx", "malformed"}
\* httpx.HTTPError covers the transport errors and the HTTPStatusError that
\* raise_for_status() raises for any 4xx or 5xx; the ValueError of
\* response.json() is not one.
IsHTTPError(kind) == kind \in {"transport", "status_5xx", "status_4xx"}
\* retry=retry_if_exception_type(httpx.HTTPError) decorates the fetchers of the
\* operation sources; fetch_rate_data of the reference rates has no decorator.
Retried(s, kind) == s \in Chunked /\ IsHTTPError(kind)

\* One attempt of the current request fails.  A retried error before the last
\* attempt leaves the request to be sent again; any other leaves run() and
\* main() as an exception.  MaxFaults bounds the exceptions that leave main().
FetchFails(s, kind) ==
    /\ faults < MaxFaults
    /\ IF Retried(s, kind) /\ loc.attempt + 1 < MaxAttempts
       THEN /\ loc' = [loc EXCEPT !.attempt = @ + 1, !.last_error = kind]
            /\ UNCHANGED <<pc, run, faults>>
       ELSE /\ faults' = faults + 1
            /\ pc' = Failed
            /\ run' = [run EXCEPT !.fetches[s] = @ + 1,
                                  !.failed = [src |-> s, stage |-> "fetch",
                                              kind |-> kind,
                                              attempts |-> loc.attempt + 1]]
            /\ loc' = NoLocals
    /\ UNCHANGED stray

MaySendAlways(in_flight) == TRUE
\* The loop is one coroutine: it is at its "await fetch_...(...)" while a
\* request is in flight, and issues a request only from the top of an
\* iteration.
MaySend(in_flight) == in_flight = 0

\* The top of an iteration of "while current_start <= end_date" in
\* fetch_historical_operations_async: the request of the chunk is issued.
SendChunk(s) ==
    /\ s \in Chunked
    /\ Running("ingest", s, "loop")
    /\ loc.current_start <= loc.end_date
    /\ MaySend(loc.in_flight)
    /\ loc' = [loc EXCEPT !.in_flight = @ + 1]
    /\ UNCHANGED <<today, state, raw, uploaded, published, args, pc, run, runs,
                   stray, faults, feed, pd, call, soma>>

\* The rest of the iteration: an attempt of the request in flight returns and
\* its items are appended, or it fails (and is sent again, or raises).
FetchChunk(s) ==
    /\ s \in Chunked
    /\ Running("ingest", s, "loop")
    /\ loc.current_start <= loc.end_date
    /\ loc.in_flight >= 1
    /\ LET cs == loc.current_start
           chunk_end == ChunkEnd(cs, loc.end_date)
       IN  \/ \E ans \in Answers(s, s, cs, chunk_end) :
                 /\ loc' = [loc EXCEPT !.items = @ \o ans.items,
                                       !.current_start = NextStart(chunk_end),
                                       !.chunks = Append(@, <<cs, chunk_end>>),
                                       !.attempt = 0,
                                       !.last_error = "",
                                       !.in_flight = @ - 1]
                 /\ stray' = stray + ans.stray
                 /\ run' = [run EXCEPT !.fetches[s] = @ + 1,
                                       !.got[s] = @ + Len(ans.items)]
                 /\ UNCHANGED <<pc, faults>>
           \/ \E kind \in FetchErrors : FetchFails(s, kind)
    /\ UNCHANGED <<today, state, raw, uploaded, published, args, runs, feed, pd, call, soma>>

\* Reference rates: the first request of an iteration (rates/all).
FetchUnsecured(s) ==
    /\ s = "reference_rates"
    /\ Running("ingest", s, "loop")
    /\ loc.current_start <= loc.end_date
    /\ LET cs == loc.current_start
           chunk_end == ChunkEnd(cs, loc.end_date)
       IN  \/ \E ans \in Answers(s, "reference_rates", cs, chunk_end) :
                 /\ loc' = [loc EXCEPT !.items = @ \o ans.items,
                                       !.chunks = Append(@, <<cs, chunk_end>>)]
                 /\ stray' = stray + ans.stray
                 /\ run' = [run EXCEPT !.fetches[s] = @ + 1,
                                       !.got[s] = @ + Len(ans.items)]
                 /\ pc' = At("ingest", pc.idx, "secured")
                 /\ UNCHANGED faults
           \/ \E kind \in FetchErrors : FetchFails(s, kind)
    /\ UNCHANGED <<today, state, raw, uploaded, published, args, runs, feed, pd, call, soma>>

\* Reference rates: the second request (rates/secured/all), then the advance.
FetchSecured(s) ==
    /\ s = "reference_rates"
    /\ Running("ingest", s, "secured")
    /\ LET cs == loc.current_start
           chunk_end == ChunkEnd(cs, loc.end_date)
       IN  \/ \E ans \in Answers(s, "reference_rates_secured", cs, chunk_end) :
                 /\ loc' = [loc EXCEPT !.secured = @ \o ans.items,
                                       !.current_start = NextStart(chunk_end)]
                 /\ stray' = stray + ans.stray
                 /\ run' = [run EXCEPT !.fetches[s] = @ + 1,
                                       !.got[s] = @ + Len(ans.items)]
                 /\ pc' = At("ingest", pc.idx, "loop")
                 /\ UNCHANGED faults
           \/ \E kind \in FetchErrors : FetchFails(s, kind)
    /\ UNCHANGED <<today, state, raw, uploaded, published, args, runs, feed, pd, call, soma>>

WalkOverAnytime(current_start, end_date) == TRUE
\* "while current_start <= end_date" is left: every chunk has been fetched.
WalkOver(current_start, end_date) == ~(current_start <= end_date)

SaveRawSwallowsFailure(s) ==
    /\ Running("ingest", s, "loop")
    /\ WalkOver(loc.current_start, loc.end_date)
    /\ \/ /\ raw' = [raw EXCEPT ![StorageKey(s, "save_raw_json")] =
                        [present |-> TRUE, items |-> loc.items,
                         secured |-> loc.secured,
                         start_date |-> Strftime(loc.start_date),
                         end_date |-> Strftime(loc.end_date)]]
          /\ pc' = At("ingest", pc.idx, "update")
          /\ UNCHANGED <<run, loc, faults>>
       \/ /\ faults < MaxFaults
          /\ faults' = faults + 1
          /\ pc' = At("ingest", pc.idx, "update")
          /\ UNCHANGED <<raw, run, loc>>
    /\ UNCHANGED <<today, state, uploaded, published, args, runs, stray, feed, pd, call, soma>>
SaveRawAppends(s) ==
    /\ Running("ingest", s, "loop")
    /\ WalkOver(loc.current_start, loc.end_date)
    /\ \/ /\ raw' = [raw EXCEPT ![StorageKey(s, "save_raw_json")] =
                        [present |-> TRUE, items |-> @.items \o loc.items,
                         secured |-> @.secured \o loc.secured,
                         start_date |-> Strftime(loc.start_date),
                         end_date |-> Strftime(loc.end_date)]]
          /\ pc' = At("ingest", pc.idx, "update")
          /\ UNCHANGED <<run, loc, faults>>
       \/ /\ Fault(s, "save_raw")
          /\ UNCHANGED raw
    /\ UNCHANGED <<today, state, uploaded, published, args, runs, stray, feed, pd, call, soma>>
\* save_raw_json({...items, "start_date", "end_date"}, source) once the loop
\* has ended: the capture replaces the stored one, or the write raises.
SaveRaw(s) ==
    /\ Running("ingest", s, "loop")
    /\ WalkOver(loc.current_start, loc.end_date)
    /\ \/ /\ raw' = [raw EXCEPT ![StorageKey(s, "save_raw_json")] =
                        [present |-> TRUE, items |-> loc.items,
                         secured |-> loc.secured,
                         start_date |-> Strftime(loc.start_date),
                         end_date |-> Strftime(loc.end_date)]]
          /\ pc' = At("ingest", pc.idx, "update")
          /\ UNCHANGED <<run, loc, faults>>
       \/ /\ Fault(s, "save_raw")
          /\ UNCHANGED raw
    /\ UNCHANGED <<today, state, uploaded, published, args, runs, stray, feed, pd, call, soma>>

\* The loop "for auction in auctions: if auction.get("operationDate"): ..."
\* of run(): the greatest parsed operationDate, None when no item has one.
RECURSIVE MaxOperationDate(_, _, _)
MaxOperationDate(items, i, max_date) ==
    IF i > Len(items) THEN max_date
    ELSE IF ~Truthy(items[i].operationDate)
    THEN MaxOperationDate(items, i + 1, max_date)
    ELSE LET op_date == Strptime(items[i].operationDate)
         IN  MaxOperationDate(items, i + 1,
                 IF ~max_date.some \/ op_date > max_date.day
                 THEN Date(op_date) ELSE max_date)
\* strptime raises ValueError on an operationDate that is not %Y-%m-%d.
MaxDateRaises(items) ==
    \E i \in 1..Len(items) :
        Truthy(items[i].operationDate) /\ ~StrptimeOk(items[i].operationDate)

\* "Update state": whether run() calls save_state, and with which last_date.
\* Operation sources: the greatest operationDate of the fetched auctions, when
\* there is one.  Reference rates: end_date, when anything was fetched.
NewLastDateAlways(s, l) ==
    [write |-> TRUE, text |-> Strftime(l.end_date)]
NewLastDate(s, l) ==
    IF s = "reference_rates"
    THEN [write |-> l.items # <<>> \/ l.secured # <<>>,
          text |-> Strftime(l.end_date)]
    ELSE LET max_date == MaxOperationDate(l.items, 1, NoneDate)
         IN  [write |-> l.items # <<>> /\ max_date.some,
              text |-> Strftime(max_date.day)]

\* The end of run(): the state update, then the return to main().
UpdateState(s) ==
    /\ Running("ingest", s, "update")
    /\ IF s \in Chunked /\ loc.items # <<>> /\ MaxDateRaises(loc.items)
       THEN /\ Raise(s, "max_date")
            /\ UNCHANGED <<state, faults>>
       ELSE LET new == NewLastDate(s, loc)
            IN  IF new.write
                THEN \/ /\ state' = [state EXCEPT ![StorageKey(s, "save_state")] =
                                                 new.text]
                        /\ run' = [run EXCEPT !.saves[s] = @ + 1,
                                              !.ingested[s] = TRUE]
                        /\ pc' = AfterIngest(pc.idx)
                        /\ loc' = NoLocals
                        /\ UNCHANGED faults
                     \/ /\ Fault(s, "save_state")
                        /\ UNCHANGED state
                ELSE /\ run' = [run EXCEPT !.ingested[s] = TRUE]
                     /\ pc' = AfterIngest(pc.idx)
                     /\ loc' = NoLocals
                     /\ UNCHANGED <<state, faults>>
    /\ UNCHANGED <<today, raw, uploaded, published, args, runs, stray, feed, pd, call, soma>>

\* -------------------------------------------------------------- transform
\* The locals of a transform are gone once its run() has returned.
LocalsAt(next, l) == IF next.step \in {"load", ""} THEN NoLocals ELSE l

StepNo(step) == CHOOSE k \in 1..Len(TransformSteps) : TransformSteps[k] = step

TransformLoadAlwaysTests(s) ==
    /\ Running("transform", s, "load")
    /\ IF ~raw[StorageKey(s, "load_raw_json")].present
       THEN Raise(s, "load")
       ELSE IF NormalizeRaises(s, raw[StorageKey(s, "load_raw_json")])
       THEN Raise(s, "normalize")
       ELSE LET records == Normalize(s, raw[StorageKey(s, "load_raw_json")])
            IN  /\ pc' = At("transform", pc.idx, TransformSteps[1])
                /\ loc' = LocalsAt(pc', [NoLocals EXCEPT !.table = records])
                /\ UNCHANGED run
    /\ UNCHANGED <<today, state, raw, uploaded, published, args, runs, stray, faults, feed, pd, call, soma>>
TransformLoadNewOnly(s) ==
    /\ Running("transform", s, "load")
    /\ IF ~raw[StorageKey(s, "load_raw_json")].present
       THEN Raise(s, "load")
       ELSE IF NormalizeRaises(s, raw[StorageKey(s, "load_raw_json")])
       THEN Raise(s, "normalize")
       ELSE LET rows == Normalize(s, raw[StorageKey(s, "load_raw_json")])
                records == IF uploaded[s] = <<>> THEN rows ELSE Tail(rows)
            IN  /\ pc' = IF records = <<>> THEN AfterTransform(pc.idx)
                         ELSE At("transform", pc.idx, TransformSteps[1])
                /\ loc' = LocalsAt(pc', [NoLocals EXCEPT !.table = records])
                /\ UNCHANGED run
    /\ UNCHANGED <<today, state, raw, uploaded, published, args, runs, stray, faults, feed, pd, call, soma>>
\* run(), up to the table: load_raw_json, build the records, return when
\* there are none, else pa.Table.from_pylist.
TransformLoad(s) ==
    /\ Running("transform", s, "load")
    /\ IF ~raw[StorageKey(s, "load_raw_json")].present
       THEN Raise(s, "load")
       ELSE IF NormalizeRaises(s, raw[StorageKey(s, "load_raw_json")])
       THEN Raise(s, "normalize")
       ELSE LET records == Normalize(s, raw[StorageKey(s, "load_raw_json")])
            IN  /\ pc' = IF records = <<>> THEN AfterTransform(pc.idx)
                         ELSE At("transform", pc.idx, TransformSteps[1])
                /\ loc' = LocalsAt(pc', [NoLocals EXCEPT !.table = records])
                /\ UNCHANGED run
    /\ UNCHANGED <<today, state, raw, uploaded, published, args, runs, stray, faults, feed, pd, call, soma>>

\* test(table): returns, or raises the validation error.
TransformTest(s) ==
    /\ Running("transform", s, "test")
    /\ IF TestPasses(s, loc.table)
       THEN /\ pc' = AfterTransformStep(pc.idx, StepNo("test"))
            /\ run' = [run EXCEPT !.tested[s] = TRUE]
            /\ loc' = LocalsAt(pc', loc)
       ELSE Raise(s, "validate")
    /\ UNCHANGED <<today, state, raw, uploaded, published, args, runs, stray, faults, feed, pd, call, soma>>

\* upload_data(table, DATASET_ID): the publisher takes the table, or raises.
TransformUpload(s) ==
    /\ Running("transform", s, "upload")
    /\ \/ /\ uploaded' = [uploaded EXCEPT ![s] =
                              Append(@, [table |-> loc.table, mode |-> args])]
          /\ run' = [run EXCEPT !.uploads[s] = @ + 1]
          /\ pc' = AfterTransformStep(pc.idx, StepNo("upload"))
          /\ loc' = LocalsAt(pc', loc)
          /\ UNCHANGED faults
       \/ /\ Fault(s, "upload")
          /\ UNCHANGED uploaded
    /\ UNCHANGED <<today, state, raw, published, args, runs, stray, feed, pd, call, soma>>

\* publish(DATASET_ID, METADATA): the metadata is registered, or it raises.
TransformPublish(s) ==
    /\ Running("transform", s, "publish")
    /\ \/ /\ published' = [published EXCEPT ![s] = @ + 1]
          /\ run' = [run EXCEPT !.publishes[s] = @ + 1]
          /\ pc' = AfterTransformStep(pc.idx, StepNo("publish"))
          /\ loc' = LocalsAt(pc', loc)
          /\ UNCHANGED faults
       \/ /\ Fault(s, "publish")
          /\ UNCHANGED published
    /\ UNCHANGED <<today, state, raw, uploaded, args, runs, stray, feed, pd, call, soma>>

\* ----------------------------------------------------------- specification
Next ==
    \/ \E mode \in Modes, adv \in 0..1 : StartRun(mode, adv)
    \/ \E s \in Sources : IngestResolve(s)
    \/ \E s \in Sources : SendChunk(s)
    \/ \E s \in Sources : FetchChunk(s)
    \/ \E s \in Sources : FetchUnsecured(s)
    \/ \E s \in Sources : FetchSecured(s)
    \/ \E s \in Sources : SaveRaw(s)
    \/ \E s \in Sources : UpdateState(s)
    \/ \E s \in Sources : TransformLoad(s)
    \/ \E s \in Sources : TransformTest(s)
    \/ \E s \in Sources : TransformUpload(s)
    \/ \E s \in Sources : TransformPublish(s)

Spec == Init /\ [][Next]_vars

\* ---------------------------------------------------- the chunk walk alone
\* One ingest of one source, from any stored watermark on any day: the range
\* is resolved and walked; the API has no data and no call raises.
IndexOf(s) == CHOOSE i \in 1..Len(Order) : Order[i] = s

InitChunk ==
    /\ today \in 0..MaxEnd
    /\ \E s \in {"ambs_operations", "reference_rates"} :
          /\ \E mark \in {NoneStr} \cup {Iso(d) : d \in 0..MaxMark} :
                state = [x \in Sources |-> IF x = s THEN mark ELSE NoneStr]
          /\ pc = At("ingest", IndexOf(s), "resolve")
          /\ feed = "treasury_operations"
    /\ raw = [s \in Sources |-> NoCapture]
    /\ uploaded = [s \in Sources |-> <<>>]
    /\ published = [s \in Sources |-> 0]
    /\ args = "ingest_only"
    /\ loc = NoLocals
    /\ run = FreshRun
    /\ runs = MaxRuns
    /\ stray = MaxStray
    /\ faults = MaxFaults
    /\ pd = PdIdle
    /\ call = NoCall
    /\ soma = SomaIdle

NextChunk ==
    \/ \E s \in Sources : IngestResolve(s)
    \/ \E s \in Sources : SendChunk(s)
    \/ \E s \in Sources : FetchChunk(s)
    \/ \E s \in Sources : FetchUnsecured(s)
    \/ \E s \in Sources : FetchSecured(s)

SpecChunk == InitChunk /\ [][NextChunk]_vars
\* The same walk, the loop not stopping while it has an iteration to make.
SpecChunkFair == InitChunk /\ [][NextChunk]_vars /\ WF_vars(NextChunk)

\* ------------------------------------------------------ one invocation alone
\* One invocation of main() over the stores an earlier ingest of the fed
\* source can have left on day Today0: nothing, or the capture of any answer
\* to the range from the default start, with the watermark run() derives from
\* it or (save_state having raised) without one.
PriorCaptures(s) ==
    LET start == DefaultStart(s)
        end == ResolveEnd(s, Today0)
        first == Catalog(s)
        second == IF s = "reference_rates"
                  THEN Catalog("reference_rates_secured") ELSE <<>>
    IN  {[present |-> TRUE,
          items |-> Pick(first, idx, 1),
          secured |-> Pick(second, jdx, 1),
          start_date |-> Strftime(start),
          end_date |-> Strftime(end)] :
            idx \in SUBSET InIdx(first, start, end),
            jdx \in SUBSET InIdx(second, start, end)}

PriorMarks(s, cap) ==
    IF s \in Chunked /\ MaxDateRaises(cap.items) THEN {NoneStr}
    ELSE LET new == NewLastDate(s, [items |-> cap.items, secured |-> cap.secured,
                                    end_date |-> ResolveEnd(s, Today0)])
         IN  IF new.write THEN {NoneStr, new.text} ELSE {NoneStr}

InitRun ==
    /\ today = Today0
    /\ feed \in Sources
    /\ \/ /\ state = [s \in Sources |-> NoneStr]
          /\ raw = [s \in Sources |-> NoCapture]
       \/ \E cap \in PriorCaptures(feed) :
             /\ raw = [s \in Sources |-> IF s = feed THEN cap ELSE NoCapture]
             /\ \E mark \in PriorMarks(feed, cap) :
                   state = [s \in Sources |-> IF s = feed THEN mark ELSE NoneStr]
    /\ uploaded = [s \in Sources |-> <<>>]
    /\ published = [s \in Sources |-> 0]
    /\ args = "full"
    /\ pc = [phase |-> "idle", idx |-> 0, step |-> ""]
    /\ loc = NoLocals
    /\ run = FreshRun
    /\ runs = MaxRuns - 1
    /\ stray = 0
    /\ faults = 0
    /\ pd = PdIdle
    /\ call = NoCall
    /\ soma = SomaIdle

SpecRun == InitRun /\ [][Next]_vars

\* ----------------------------------------------------- the transforms alone
\* The captures a transform can find stored: what save_raw_json wrote is
\* whatever the API returned, so the items are any short list of auctions
\* (rates) with well-formed, malformed or missing fields.
DateTexts == {Iso(Today0), BadStr, NoneStr}
Statuses == {"Results", "Scheduled"}
AmbsDetailLists ==
    {<<>>, <<AmbsDetailOf("FNCL 2.5"), AmbsDetailOf("GNMA 3.0")>>,
     Copies(MinRows, AmbsDetail)}
TsyDetailLists ==
    {<<>>, <<TsyDetail(Plain(0))>>, Copies(MinRows, TsyDetail(Plain(5)))}
RateVariants ==
    {Rate(Iso(Today0 - 1), "EFFR", Plain(5)),
     Rate(BadStr, "EFFR", Plain(5)),
     Rate(Iso(Today0 - 1), "EFFR", [fmt |-> "na", val |-> 0]),
     Rate(Iso(Today0 - 1), "SOFRAI", Plain(5)),
     Rate(Iso(Today0 - 1), "EFFR", Plain(25))}

\* A block is the run of items one response contributes: one auction, or the
\* rates of one or of MinRows days.
Blocks(s) ==
    CASE s = "ambs_operations" ->
           {<<Auction("", d, st, det)>> :
               d \in DateTexts, st \in Statuses, det \in AmbsDetailLists}
      [] s = "treasury_operations" ->
           {<<Auction("", d, st, det)>> :
               d \in DateTexts, st \in Statuses, det \in TsyDetailLists}
      [] s = "reference_rates" ->
           {Copies(n, r) : n \in {1, MinRows}, r \in RateVariants}

\* The k-th block of a capture; the k-th auction has the operationId "N<k>".
Stamp(s, block, k) ==
    IF s = "reference_rates" THEN block
    ELSE [i \in DOMAIN block |->
            [block[i] EXCEPT !.operationId = "N" \o ToString(k)]]

RECURSIVE Concat(_, _, _)
Concat(s, f, k) ==
    IF k > Len(f) THEN <<>> ELSE Stamp(s, f[k], k) \o Concat(s, f, k + 1)

CaptureOf(s, items) ==
    [present |-> TRUE, items |-> items, secured |-> <<>>,
     start_date |-> Strftime(DefaultStart(s)),
     end_date |-> Strftime(ResolveEnd(s, Today0))]

StoredCaptures(s) ==
    {CaptureOf(s, Concat(s, f, 1)) :
        f \in UNION {[1..n -> Blocks(s)] : n \in 0..MaxItems}}

\* python main.py --transform-only, twice, over such a capture of one source
\* (the other sources hold the capture of an ingest that fetched nothing).
InitNormalize ==
    /\ today = Today0
    /\ feed \in Sources
    /\ \E cap \in StoredCaptures(feed) :
          raw = [s \in Sources |-> IF s = feed THEN cap ELSE CaptureOf(s, <<>>)]
    /\ state = [s \in Sources |-> NoneStr]
    /\ uploaded = [s \in Sources |-> <<>>]
    /\ published = [s \in Sources |-> 0]
    /\ args = "transform_only"
    /\ pc = [phase |-> "idle", idx |-> 0, step |-> ""]
    /\ loc = NoLocals
    /\ run = FreshRun
    /\ runs = MaxRuns - 2
    /\ stray = MaxStray
    /\ faults = MaxFaults
    /\ pd = PdIdle
    /\ call = NoCall
    /\ soma = SomaIdle

NextNormalize ==
    \/ StartRun("transform_only", 0)
    \/ \E s \in Sources : TransformLoad(s)
    \/ \E s \in Sources : TransformTest(s)
    \/ \E s \in Sources : TransformUpload(s)
    \/ \E s \in Sources : TransformPublish(s)

SpecNormalize == InitNormalize /\ [][NextNormalize]_vars

\* ------------------------------------------------- the parsing helpers alone
\* One call of a numeric parser or of parse_bool on a value a raw record can
\* hold.
NumberInputs ==
    {NoneNum, [fmt |-> "empty", val |-> 0], [fmt |-> "na", val |-> 0],
     [fmt |-> "junk", val |-> 0]}
    \cup {Plain(v) : v \in {0, 5, 1234}}
    \cup {[fmt |-> "commas", val |-> v] : v \in {1234, 1234567}}

BoolInputs ==
    {NoneValue, PyBool(TRUE), PyBool(FALSE), PyInt(1), PyInt(0)}
    \cup {Str(t) : t \in
            {<<>>, <<"t", "r", "u", "e">>, <<"T", "R", "U", "E">>,
             <<"T", "r", "u", "e">>, <<"1">>, <<"y", "e", "s">>,
             <<"Y", "E", "S">>, <<"Y", "e", "s">>,
             <<"f", "a", "l", "s", "e">>, <<"F", "a", "l", "s", "e">>,
             <<"n", "o">>, <<"N", "O">>, <<"0">>, <<"y">>, <<"t">>,
             <<"o", "n">>, <<" ", "1">>, <<"1", "1">>, <<"2">>}}

Pending(fn, arg) == [fn |-> fn, arg |-> arg, done |-> FALSE, out |-> NoneVal]

InitParse ==
    /\ today = Today0
    /\ state = [s \in Sources |-> NoneStr]
    /\ raw = [s \in Sources |-> NoCapture]
    /\ uploaded = [s \in Sources |-> <<>>]
    /\ published = [s \in Sources |-> 0]
    /\ args = "transform_only"
    /\ pc = [phase |-> "idle", idx |-> 0, step |-> ""]
    /\ loc = NoLocals
    /\ run = FreshRun
    /\ runs = 0
    /\ stray = 0
    /\ faults = 0
    /\ feed = "reference_rates"
    /\ pd = PdIdle
    /\ soma = SomaIdle
    /\ \/ \E p \in NumberParsers, v \in NumberInputs : call = Pending(p, v)
       \/ \E p \in BoolParsers, v \in BoolInputs : call = Pending(p, v)

CallParseNumber ==
    /\ call.fn \in NumberParsers
    /\ ~call.done
    /\ call' = [call EXCEPT !.done = TRUE, !.out = ParseNumberOf(call.fn, call.arg)]
    /\ UNCHANGED <<today, state, raw, uploaded, published, args, pc, loc, run,
                   runs, stray, faults, feed, pd, soma>>

CallParseBool ==
    /\ call.fn \in BoolParsers
    /\ ~call.done
    /\ call' = [call EXCEPT !.done = TRUE, !.out = ParseBool(call.arg)]
    /\ UNCHANGED <<today, state, raw, uploaded, published, args, pc, loc, run,
                   runs, stray, faults, feed, pd, soma>>

NextParse == CallParseNumber \/ CallParseBool

SpecParse == InitParse /\ [][NextParse]_vars
\* ------------------------------------------------- the primary dealer ingest
\* ingest/primary_dealer.py alone: run() from any stored "last_week".  Every
\* series answers with one row of the latest release or fails.
MainVars == <<today, state, raw, uploaded, published, args, pc, loc, run, runs,
              stray, feed, call, soma>>

\* The row of a CSV answer: its 'As Of Date'.
PdRow == [as_of |-> Iso(Today0 - 2)]
\* What can go wrong with a series: the request (see FetchErrors) or the
\* parse of the CSV text.
PdErrors == {"transport", "status_5xx", "status_4xx", "parse"}

\* run(): state = load_state(...); last_week = state.get("last_week").
PdLoad ==
    /\ pd.step = "load"
    /\ pd' = [pd EXCEPT !.step = "create", !.last_week = pd.state]
    /\ UNCHANGED <<MainVars, faults>>

\* fetch_all_series_async: "task = fetch_series_csv(client, series_code)" for
\* every series.  Calling the coroutine function creates a coroutine object;
\* nothing of it runs, and no request is sent, before it is awaited.
PdCreateTasks ==
    /\ pd.step = "create"
    /\ pd' = [pd EXCEPT !.step = "await", !.i = 1,
                        !.tasks = [k \in Series |-> "created"]]
    /\ UNCHANGED <<MainVars, faults>>

\* "csv_content = await task" for the series at index i: its coroutine starts
\* and sends the request.
PdSend(k) ==
    /\ pd.step = "await"
    /\ pd.i = k
    /\ pd.tasks[k] = "created"
    /\ pd' = [pd EXCEPT !.tasks[k] = "in_flight", !.attempt = 0]
    /\ UNCHANGED <<MainVars, faults>>

\* results[series_code] = rows, and on to the next series; after the last,
\* "return results".
PdSeriesDone(k, rows, failed) ==
    pd' = [pd EXCEPT !.tasks[k] = "done",
                     !.results = Append(@, rows),
                     !.failed = IF failed THEN @ \cup {k} ELSE @,
                     !.i = k + 1,
                     !.attempt = 0,
                     !.step = IF k = NumSeries THEN "scan" ELSE "await"]

PdSeriesFailedRaises(k) ==
    pd' = [pd EXCEPT !.step = "raised", !.raised = "fetch"]
\* "except Exception as e: ...; results[series_code] = []".
PdSeriesFailed(k) == PdSeriesDone(k, <<>>, TRUE)

\* The awaited coroutine finishes: the text is parsed into rows, or an attempt
\* fails (retried like the other fetchers), or the failure reaches the
\* "except" of the loop.
PdRespond(k) ==
    /\ pd.step = "await"
    /\ pd.tasks[k] = "in_flight"
    /\ \/ PdSeriesDone(k, <<PdRow>>, FALSE)
       \/ \E kind \in PdErrors :
             IF IsHTTPError(kind) /\ pd.attempt + 1 < MaxAttempts
             THEN pd' = [pd EXCEPT !.attempt = @ + 1]
             ELSE PdSeriesFailed(k)
    /\ UNCHANGED <<MainVars, faults>>

\* run(): the latest 'As Of Date' across all series.
RECURSIVE PdMaxDate(_, _, _)
PdMaxDate(results, k, max_date) ==
    IF k > Len(results) THEN max_date
    ELSE PdMaxDate(results, k + 1,
             IF results[k] # <<>>
                /\ (~max_date.some \/ Strptime(results[k][1].as_of) > max_date.day)
             THEN Date(Strptime(results[k][1].as_of)) ELSE max_date)
PdScan ==
    /\ pd.step = "scan"
    /\ pd' = [pd EXCEPT !.step = "save_raw",
                        !.max_date = PdMaxDate(pd.results, 1, NoneDate)]
    /\ UNCHANGED <<MainVars, faults>>

\* save_raw_json({"series_data": raw_data, "last_week_filter": last_week}, ...).
PdSaveRaw ==
    /\ pd.step = "save_raw"
    /\ \/ /\ pd' = [pd EXCEPT !.step = "save_state",
                              !.raw = [present |-> TRUE,
                                       series_data |-> pd.results,
                                       last_week_filter |-> pd.last_week]]
          /\ UNCHANGED faults
       \/ /\ faults < MaxFaults
          /\ faults' = faults + 1
          /\ pd' = [pd EXCEPT !.step = "raised", !.raised = "save_raw"]
    /\ UNCHANGED MainVars

\* "if max_date and (not last_week_date or max_date > last_week_date):
\* save_state(...)", then run() returns.
PdNewer(max_date, last_week) ==
    max_date.some /\ (~Truthy(last_week) \/ max_date.day > Strptime(last_week))
PdUpdateState ==
    /\ pd.step = "save_state"
    /\ IF PdNewer(pd.max_date, pd.last_week)
       THEN \/ /\ pd' = [pd EXCEPT !.step = "returned",
                                    !.state = Strftime(pd.max_date.day)]
               /\ UNCHANGED faults
            \/ /\ faults < MaxFaults
               /\ faults' = faults + 1
               /\ pd' = [pd EXCEPT !.step = "raised", !.raised = "save_state"]
       ELSE /\ pd' = [pd EXCEPT !.step = "returned"]
            /\ UNCHANGED faults
    /\ UNCHANGED MainVars

InitPd ==
    /\ today = Today0
    /\ state = [s \in Sources |-> NoneStr]
    /\ raw = [s \in Sources |-> NoCapture]
    /\ uploaded = [s \in Sources |-> <<>>]
    /\ published = [s \in Sources |-> 0]
    /\ args = "ingest_only"
    /\ pc = [phase |-> "idle", idx |-> 0, step |-> ""]
    /\ loc = NoLocals
    /\ run = FreshRun
    /\ runs = 0
    /\ stray = 0
    /\ faults = 0
    /\ feed = "reference_rates"
    /\ \E mark \in {NoneStr, Iso(Today0 - 9), Iso(Today0 - 2)} :
          pd = [PdIdle EXCEPT !.step = "load", !.state = mark]
    /\ call = NoCall
    /\ soma = SomaIdle

NextPd ==
    \/ PdLoad
    \/ PdCreateTasks
    \/ \E k \in Series : PdSend(k)
    \/ \E k \in Series : PdRespond(k)
    \/ PdScan
    \/ PdSaveRaw
    \/ PdUpdateState

SpecPd == InitPd /\ [][NextPd]_vars

\* ------------------------------- the primary dealer statistics, run after run
\* transforms/primary_dealer_stats run(), up to the table: the rows of every
\* series that have the two columns, skipping those whose week_ending is not
\* later than the last_week_filter stored with the capture.
RECURSIVE PdRecordsByWatermark(_, _)
PdRecordsByWatermark(capture, k) ==
    IF k > Len(capture.series_data) THEN <<>>
    ELSE LET rows == capture.series_data[k]
             last_week_filter == pd.state
             kept == SelectSeq(rows,
                         LAMBDA row :
                             ~(Truthy(last_week_filter)
                               /\ ParseDateUtils(row.as_of).day
                                      <= Strptime(last_week_filter)))
         IN  [i \in DOMAIN kept |->
                 [week_ending |-> ParseDateUtils(kept[i].as_of),
                  series_code |-> k]]
             \o PdRecordsByWatermark(capture, k + 1)
RECURSIVE PdRecords(_, _)
PdRecords(capture, k) ==
    IF k > Len(capture.series_data) THEN <<>>
    ELSE LET rows == capture.series_data[k]
             last_week_filter == capture.last_week_filter
             kept == SelectSeq(rows,
                         LAMBDA row :
                             ~(Truthy(last_week_filter)
                               /\ ParseDateUtils(row.as_of).day
                                      <= Strptime(last_week_filter)))
         IN  [i \in DOMAIN kept |->
                 [week_ending |-> ParseDateUtils(kept[i].as_of),
                  series_code |-> k]]
             \o PdRecords(capture, k + 1)

\* The transform is entered: after the ingest in a run without flags, or first
\* with --transform-only.
PdTransformLoad ==
    /\ \/ pd.step = "returned" /\ pd.mode = "full"
       \/ pd.step = "transform"
    /\ IF ~pd.raw.present
       THEN pd' = [pd EXCEPT !.step = "raised", !.raised = "load"]
       ELSE LET records == PdRecords(pd.raw, 1)
            IN  pd' = [pd EXCEPT !.step = IF records = <<>> THEN "done" ELSE "test",
                                 !.table = records]
    /\ UNCHANGED <<MainVars, faults>>

\* test(table): min_rows 10.
PdTransformTest ==
    /\ pd.step = "test"
    /\ pd' = IF Len(pd.table) >= MinRows
             THEN [pd EXCEPT !.step = "upload"]
             ELSE [pd EXCEPT !.step = "raised", !.raised = "validate"]
    /\ UNCHANGED <<MainVars, faults>>

\* upload_data(table, DATASET_ID)
PdTransformUpload ==
    /\ pd.step = "upload"
    /\ \/ /\ pd' = [pd EXCEPT !.step = "publish",
                              !.uploads = Append(@, pd.table)]
          /\ UNCHANGED faults
       \/ /\ faults < MaxFaults
          /\ faults' = faults + 1
          /\ pd' = [pd EXCEPT !.step = "raised", !.raised = "upload"]
    /\ UNCHANGED MainVars

\* publish(DATASET_ID, METADATA), then run() returns.
PdTransformPublish ==
    /\ pd.step = "publish"
    /\ \/ /\ pd' = [pd EXCEPT !.step = "done", !.published = @ + 1]
          /\ UNCHANGED faults
       \/ /\ faults < MaxFaults
          /\ faults' = faults + 1
          /\ pd' = [pd EXCEPT !.step = "raised", !.raised = "publish"]
    /\ UNCHANGED MainVars

\* The next invocation: the stores stay, the locals start anew ("missed"
\* remembers the series that failed in the invocations before).
PdStartRun(mode) ==
    /\ \/ pd.step \in {"done", "raised"}
       \/ pd.step = "returned" /\ pd.mode = "ingest_only"
    /\ runs < MaxRuns
    /\ runs' = runs + 1
    /\ pd' = [PdIdle EXCEPT !.step = IF mode = "transform_only" THEN "transform"
                                     ELSE "load",
                            !.mode = mode,
                            !.state = pd.state,
                            !.raw = pd.raw,
                            !.uploads = pd.uploads,
                            !.published = pd.published,
                            !.missed = pd.missed \cup pd.failed]
    /\ UNCHANGED <<today, state, raw, uploaded, published, args, pc, loc, run,
                   stray, faults, feed, call, soma>>

\* At most MaxSeriesFailed series fail in one ingest.
InitPdRuns ==
    /\ today = Today0
    /\ state = [s \in Sources |-> NoneStr]
    /\ raw = [s \in Sources |-> NoCapture]
    /\ uploaded = [s \in Sources |-> <<>>]
    /\ published = [s \in Sources |-> 0]
    /\ args = "full"
    /\ pc = [phase |-> "idle", idx |-> 0, step |-> ""]
    /\ loc = NoLocals
    /\ run = FreshRun
    /\ runs = MaxRuns - 2
    /\ stray = 0
    /\ faults = 0
    /\ feed = "reference_rates"
    /\ \E mark \in {NoneStr, Iso(Today0 - 9)} :
          pd = [PdIdle EXCEPT !.step = "done", !.state = mark]
    /\ call = NoCall
    /\ soma = SomaIdle

NextPdRuns ==
    \/ \E mode \in Modes : PdStartRun(mode)
    \/ PdLoad
    \/ PdCreateTasks
    \/ \E k \in Series : PdSend(k)
    \/ \E k \in Series : PdRespond(k) /\ Cardinality(pd'.failed) <= MaxSeriesFailed
    \/ PdScan
    \/ PdSaveRaw
    \/ PdUpdateState
    \/ PdTransformLoad
    \/ PdTransformTest
    \/ PdTransformUpload
    \/ PdTransformPublish

SpecPdRuns == InitPdRuns /\ [][NextPdRuns]_vars

\* ------------------------------------------------- the SOMA holdings ingest
\* ingest/soma.py alone: run() from any stored "last_date".
SomaVars == <<today, state, raw, uploaded, published, args, pc, loc, run, runs,
              stray, feed, pd, call>>

\* The asOfDate values of the summary, and what soma/summary.json can hold: no
\* data, no "soma" key, no "summary" key under it, or the summary list, one
\* entry per release in the order of their dates.
SomaDates == {Today0 - 9, Today0 - 2}
SomaSummaries ==
    {l \in UNION {[1..n -> SomaDates] : n \in 0..MaxItems} :
        \A i \in 1..(Len(l) - 1) : l[i] <= l[i + 1]}
SomaEntry(d) == [asOfDate |-> Iso(d)]

\* run(): state = load_state("soma_holdings"); last_date = state.get("last_date").
SomaLoad ==
    /\ soma.step = "load"
    /\ soma' = [soma EXCEPT !.step = "summary", !.last_date = soma.state]
    /\ UNCHANGED <<SomaVars, faults>>

\* An attempt of fetch_soma_data fails: an httpx.HTTPError is retried until
\* the third attempt, any other exception leaves run() at once.
SomaAttemptFails(kind) ==
    IF IsHTTPError(kind) /\ soma.attempt + 1 < MaxAttempts
    THEN soma' = [soma EXCEPT !.attempt = @ + 1]
    ELSE soma' = [soma EXCEPT !.step = "raised", !.raised = "fetch"]

SomaFirstAsOfDate(summary_list) == summary_list[1].asOfDate
\* as_of_date = summary_list[-1]["asOfDate"]
SomaAsOfDate(summary_list) == summary_list[Len(summary_list)].asOfDate

\* fetch_holdings_async: the summary is fetched; (None, None) is returned when
\* it is missing or empty, and run() returns on it.
SomaSummary ==
    /\ soma.step = "summary"
    /\ \/ \E shape \in {"no_data", "no_soma", "no_summary", "summary"},
             dates \in SomaSummaries :
             LET summary_list == [i \in DOMAIN dates |-> SomaEntry(dates[i])]
             IN  /\ shape # "summary" => dates = <<>>
                 /\ soma' =
                       IF shape # "summary" \/ summary_list = <<>>
                       THEN [soma EXCEPT !.step = "returned", !.attempt = 0,
                                         !.latest_data = shape]
                       ELSE [soma EXCEPT !.step = "treasury", !.attempt = 0,
                                         !.latest_data = shape,
                                         !.summary = summary_list,
                                         !.current_date = SomaAsOfDate(summary_list)]
       \/ \E kind \in FetchErrors : SomaAttemptFails(kind)
    /\ UNCHANGED <<SomaVars, faults>>

\* The holdings as of that date: soma/tsy/get/asof/..., then
\* soma/agency/get/asof/...; after both, run() has raw_data and current_date.
SomaHoldings(endpoint) ==
    /\ soma.step = endpoint
    /\ \/ soma' = [soma EXCEPT !.attempt = 0,
                               !.step = IF endpoint = "treasury" THEN "agency"
                                        ELSE "compare"]
       \/ \E kind \in FetchErrors : SomaAttemptFails(kind)
    /\ UNCHANGED <<SomaVars, faults>>

\* "if last_date and last_date == current_date: ... return"
SomaUpToDate(last_date, current_date) ==
    Truthy(last_date) /\ last_date = current_date
SomaCompare ==
    /\ soma.step = "compare"
    /\ soma' = [soma EXCEPT !.step = IF SomaUpToDate(soma.last_date, soma.current_date)
                                     THEN "returned" ELSE "save_raw"]
    /\ UNCHANGED <<SomaVars, faults>>

\* save_raw_json(raw_data, "soma_holdings")
SomaSaveRaw ==
    /\ soma.step = "save_raw"
    /\ \/ /\ soma' = [soma EXCEPT !.step = "save_state",
                                  !.raw = [present |-> TRUE,
                                           summary |-> soma.summary,
                                           as_of |-> soma.current_date],
                                  !.writes = Append(@, "raw")]
          /\ UNCHANGED faults
       \/ /\ faults < MaxFaults
          /\ faults' = faults + 1
          /\ soma' = [soma EXCEPT !.step = "raised", !.raised = "save_raw"]
    /\ UNCHANGED SomaVars

\* save_state("soma_holdings", {"last_date": current_date}), then run() returns.
SomaSaveState ==
    /\ soma.step = "save_state"
    /\ \/ /\ soma' = [soma EXCEPT !.step = "returned",
                                  !.state = soma.current_date,
                                  !.writes = Append(@, "state")]
          /\ UNCHANGED faults
       \/ /\ faults < MaxFaults
          /\ faults' = faults + 1
          /\ soma' = [soma EXCEPT !.step = "raised", !.raised = "save_state"]
    /\ UNCHANGED SomaVars

\* What an earlier run stored: nothing, or the capture and the watermark of a
\* release.
InitSoma ==
    /\ today = Today0
    /\ state = [s \in Sources |-> NoneStr]
    /\ raw = [s \in Sources |-> NoCapture]
    /\ uploaded = [s \in Sources |-> <<>>]
    /\ published = [s \in Sources |-> 0]
    /\ args = "ingest_only"
    /\ pc = [phase |-> "idle", idx |-> 0, step |-> ""]
    /\ loc = NoLocals
    /\ run = FreshRun
    /\ runs = 0
    /\ stray = 0
    /\ faults = 0
    /\ feed = "reference_rates"
    /\ pd = PdIdle
    /\ call = NoCall
    /\ \/ soma = [SomaIdle EXCEPT !.step = "load"]
       \/ \E d \in SomaDates :
             soma = [SomaIdle EXCEPT !.step = "load",
                                     !.state = Iso(d),
                                     !.raw = [present |-> TRUE,
                                              summary |-> <<SomaEntry(d)>>,
                                              as_of |-> Iso(d)]]

NextSoma ==
    \/ SomaLoad
    \/ SomaSummary
    \/ \E endpoint \in {"treasury", "agency"} : SomaHoldings(endpoint)
    \/ SomaCompare
    \/ SomaSaveRaw
    \/ SomaSaveState

SpecSoma == InitSoma /\ [][NextSoma]_vars
\* ------------------------------------------------------------------ claims
InLoop == pc.phase = "ingest" /\ pc.step \in {"loop", "secured"}
LoopEnded == pc.phase = "ingest" /\ pc.step = "loop" /\ loc.current_start > loc.end_date
ChunkStart(i) == loc.chunks[i][1]
ChunkStop(i) == loc.chunks[i][2]

\* C4: the chunks requested so far are in ascending order, each starts the day
\* after the previous one ends (so no two overlap and none leaves a gap), the
\* first starts at start_date, and when the loop has ended the last one ends
\* at end_date: their union is exactly [start_date, end_date].
C4_ChunksCoverRange ==
    InLoop =>
        /\ \A i \in 1..Len(loc.chunks) : ChunkStart(i) <= ChunkStop(i)
        /\ \A i \in 2..Len(loc.chunks) : ChunkStart(i) = ChunkStop(i - 1) + 1
        /\ loc.chunks # <<>> => ChunkStart(1) = loc.start_date
        /\ \A i \in 1..Len(loc.chunks) : ChunkStop(i) <= loc.end_date
        /\ LoopEnded =>
              /\ loc.chunks # <<>>
              /\ ChunkStop(Len(loc.chunks)) = loc.end_date

\* A walk of three chunks has ended.
C4_Witness == LoopEnded /\ Len(loc.chunks) >= 3

\* C5: every chunk requested has chunk_start <= chunk_end and spans at most 90
\* days, every chunk but the last spans exactly 90 days, and each chunk_end is
\* min(chunk_start + 89 days, end_date).
C5_ChunkSpan ==
    InLoop =>
        /\ \A i \in 1..Len(loc.chunks) :
              /\ ChunkStart(i) <= ChunkStop(i)
              /\ ChunkStop(i) - ChunkStart(i) <= 89
              /\ ChunkStop(i) = Min(ChunkStart(i) + 89, loc.end_date)
        /\ \A i \in 1..(Len(loc.chunks) - 1) :
              ChunkStop(i) - ChunkStart(i) = 89

\* A walk has ended whose last chunk is shorter than the ones before it.
C5_Witness ==
    /\ LoopEnded
    /\ Len(loc.chunks) >= 2
    /\ ChunkStop(Len(loc.chunks)) - ChunkStart(Len(loc.chunks)) < 89

IngestStages == {"fetch", "save_raw", "max_date", "save_state"}
FailedAt(s, stage) ==
    pc = Failed /\ run.failed.src = s /\ run.failed.stage = stage

\* C1: in a full run the watermark of a source is written only after the
\* source's table was validated, uploaded and published in the same run.
C1_WatermarkAfterPublish ==
    \A s \in Sources :
        (args = "full" /\ run.saves[s] > 0) =>
            /\ run.tested[s]
            /\ run.uploads[s] > 0
            /\ run.publishes[s] > 0

\* C2: when a run fails after the fetch and before the publish completes (the
\* raw capture write, the normalization, the validation or the upload raised),
\* the watermark of that source is the one the run started with, so the next
\* run resolves the same start date.
C2_FailedRunKeepsWatermark ==
    \A s \in Sources :
        (\E stage \in {"save_raw", "normalize", "validate", "upload"} :
            FailedAt(s, stage)) =>
            /\ state[s] = run.state0[s]
            /\ ResolveStart(s, state[s]) = ResolveStart(s, run.state0[s])

\* C3: over full-mode runs, no observation the normalizer keeps is handed to
\* the publisher by two runs (here: even when the API only returns items
\* inside the requested range and no call raises).
SharesRow(t1, t2) ==
    \E a \in 1..Len(t1), b \in 1..Len(t2) : t1[a] = t2[b]
C3_PublishedOnce ==
    (stray = 0 /\ faults = 0) =>
        \A s \in Sources :
            \A i, j \in 1..Len(uploaded[s]) :
                (i < j /\ uploaded[s][i].mode = "full" /\ uploaded[s][j].mode = "full")
                    => ~SharesRow(uploaded[s][i].table, uploaded[s][j].table)

\* C6: a table that fails validation is neither uploaded nor published in that
\* run: an upload is preceded by a passed test(table) of a table with at least
\* min_rows rows, and a publish by an upload.
C6_ValidationBeforeUpload ==
    \A s \in Sources :
        /\ FailedAt(s, "validate") => (run.uploads[s] = 0 /\ run.publishes[s] = 0)
        /\ run.uploads[s] > 0 => run.tested[s]
        /\ run.publishes[s] > 0 => run.uploads[s] > 0
        /\ \A i \in 1..Len(uploaded[s]) : Len(uploaded[s][i].table) >= MinRows

\* A run ended by the validation error of a table with too few rows.
C6_Witness ==
    \E s \in Sources :
        /\ FailedAt(s, "validate")
        /\ raw[s].present
        /\ Len(Normalize(s, raw[s])) \in 1..(MinRows - 1)

\* C7: when the range resolved from the watermark the run loaded is empty
\* (start > end), the ingest makes no request, leaves the watermark and the
\* stored capture of the source as they were, and does not raise.
RangeIsEmpty(s) ==
    /\ pc.phase # "idle"
    /\ ShouldIngest(args)
    /\ (IF Truthy(run.state0[s]) THEN run.state0[s].day + 1 ELSE DefaultStart(s))
          > (IF s = "reference_rates" THEN today - 1 ELSE today)
C7_EmptyRangeNoOp ==
    \A s \in Sources :
        RangeIsEmpty(s) =>
            /\ run.fetches[s] = 0
            /\ state[s] = run.state0[s]
            /\ raw[s] = run.raw0[s]
            /\ ~(pc = Failed /\ run.failed.src = s /\ run.failed.stage \in IngestStages)

\* The ingest of a source with a stored watermark and a stored capture
\* returned on an empty range.
C7_Witness ==
    \E s \in Sources :
        /\ RangeIsEmpty(s)
        /\ run.empty[s]
        /\ run.ingested[s]
        /\ Truthy(run.state0[s])
        /\ raw[s].present

\* C8: when the resolved range of a source is empty in a full run, the
\* publisher (upload_data, publish) is not invoked for that source in the run
\* (here: even when no call raises).
C8_EmptyRangeNoPublish ==
    \A s \in Sources :
        (args = "full" /\ run.empty[s] /\ faults = 0) =>
            (run.uploads[s] = 0 /\ run.publishes[s] = 0)

\* C9: no run stores a watermark earlier than the one it loaded, whatever
\* dates the API returns.
C9_WatermarkMonotone ==
    \A s \in Sources :
        Truthy(run.state0[s]) =>
            /\ Truthy(state[s])
            /\ Strptime(state[s]) >= Strptime(run.state0[s])

\* C10: after a successful full run that wrote the watermark of a source, the
\* watermark is the greatest date among the records the normalizer produced
\* from that run's capture (here: even when the API only returns items inside
\* the requested range).
RECURSIVE MaxRowDate(_, _, _, _)
MaxRowDate(s, rows, i, max_date) ==
    IF i > Len(rows) THEN max_date
    ELSE LET d == RowDate(s, rows[i])
         IN  MaxRowDate(s, rows, i + 1,
                 IF d.some /\ (~max_date.some \/ d.day > max_date.day)
                 THEN d ELSE max_date)
C10_WatermarkIsMaxRecordDate ==
    (pc = Done /\ args = "full" /\ stray = 0 /\ faults = 0) =>
        \A s \in Sources :
            (run.saves[s] > 0 /\ run.publishes[s] > 0) =>
                LET max_date == MaxRowDate(s, Normalize(s, raw[s]), 1, NoneDate)
                IN  max_date.some /\ state[s] = Strftime(max_date.day)

\* C11: a run writes the watermark of a source at most once, and only when
\* it fetched at least one item for the source and some fetched item carries a
\* date to take the greatest from; a run that did not write it leaves the
\* stored watermark as it was.
HasDate(s, item) ==
    IF s \in Chunked THEN Truthy(item.operationDate)
    ELSE Truthy(item.effectiveDate)
Transient == {"transport", "status_5xx"}
C12_ThreeAttempts ==
    /\ loc.attempt < MaxAttempts
    /\ run.failed.attempts <= MaxAttempts
    /\ \A s \in Sources :
          (FailedAt(s, "fetch") /\ run.failed.kind \in Transient) =>
              run.failed.attempts = MaxAttempts

\* C13: a non-retryable failure of the request of a chunk (a 4xx status, a
\* body that is not JSON) propagates at once: no attempt of a request follows
\* an attempt that failed that way.
NonRetryable == {"status_4xx", "malformed"}
C13_ClientErrorNotRetried ==
    loc.attempt > 0 => loc.last_error \notin NonRetryable

\* C14: when the fetch of a chunk of a source ultimately fails, the run of the
\* source is aborted with the chunks fetched before it unused: the stored
\* capture and the watermark are as the run found them and nothing of the
\* source is uploaded or published in the run; a capture is only ever written
\* once the whole range has been walked.
C14_FetchFailureAborts ==
    /\ \A s \in Sources :
          FailedAt(s, "fetch") =>
              /\ raw[s] = run.raw0[s]
              /\ state[s] = run.state0[s]
              /\ run.saves[s] = 0
              /\ run.uploads[s] = 0
              /\ run.publishes[s] = 0
    /\ (pc.phase = "ingest" /\ pc.step = "update") =>
          loc.current_start > loc.end_date

\* A request failed for good after earlier requests of the same ingest had
\* returned items.
C14_Witness ==
    \E s \in Sources :
        /\ FailedAt(s, "fetch")
        /\ run.fetches[s] > 1
        /\ run.got[s] > 0

\* C15: a failure in the pipeline of one source does not abort the batch: when
\* an invocation that runs the ingest phase has ended, the ingest of every
\* source has been attempted (it returned, or it is the one that raised).
IngestAttempted(s) ==
    \/ run.ingested[s]
    \/ run.failed.src = s /\ run.failed.stage \in IngestStages
C15_BatchContinues ==
    (pc.phase \in {"done", "failed"} /\ ShouldIngest(args)) =>
        \A s \in Sources : IngestAttempted(s)

\* The exit status of the process: main() is the whole script, so the
\* interpreter ends with 1 when an exception left main() and with 0 when
\* main() returned.
Ended == pc.phase \in {"done", "failed"}
ExitStatus == IF pc = Failed THEN 1 ELSE 0

\* C16: once the batch has ended, the exit status is non-zero if and only if
\* the pipeline of some source failed during the batch.
C16_ExitStatusIffFailure ==
    Ended => (ExitStatus # 0 <=> run.failed.src \in Sources)

\* A batch ended by the failed validation of a source, with a non-zero exit
\* status, after the ingest phase had completed for every source.
C16_Witness ==
    /\ Ended
    /\ ExitStatus # 0
    /\ \E s \in Sources : FailedAt(s, "validate")
    /\ \A s \in Sources : run.ingested[s]

\* C17: the chunk loop of a range with start <= end ends, after exactly
\* ceil((end - start + 1) / 90) chunks; a single-day range (start = end) gives
\* the one chunk [start, start].
ChunkCount(start, end) == (end - start + 1 + ChunkDays) \div (ChunkDays + 1)
ChunkCountExact ==
    LoopEnded =>
        /\ Len(loc.chunks) = ChunkCount(loc.start_date, loc.end_date)
        /\ loc.start_date = loc.end_date =>
              /\ Len(loc.chunks) = 1
              /\ ChunkStart(1) = loc.start_date
              /\ ChunkStop(1) = loc.start_date
C17_LoopTerminates ==
    /\ []ChunkCountExact
    /\ (InLoop /\ loc.start_date <= loc.end_date) ~> LoopEnded

\* The loop of a single-day range has ended.
C17_Witness ==
    /\ LoopEnded
    /\ loc.start_date = loc.end_date
    /\ Len(loc.chunks) = 1

\* C18: in the primary dealer ingest the failure of a series (its fetch or
\* its parse) is recorded as an empty list for the series; the other series
\* are still fetched, the capture is still written with every series in it,
\* and the ingest does not raise because of it.
C18_SeriesFailureIsEmpty ==
    /\ \A k \in pd.failed : k <= Len(pd.results) /\ pd.results[k] = <<>>
    /\ pd.step \in {"scan", "save_raw", "save_state", "returned"} =>
          /\ Len(pd.results) = NumSeries
          /\ \A k \in Series : pd.tasks[k] = "done"
    /\ pd.step \in {"save_state", "returned"} =>
          /\ pd.raw.present
          /\ pd.raw.series_data = pd.results
    /\ pd.step = "raised" => pd.raised \in {"save_raw", "save_state"}

\* The ingest returned after a series had failed and a later series had
\* answered with rows.
C18_Witness ==
    /\ pd.step = "returned"
    /\ \E k \in pd.failed :
          \E j \in Series : j > k /\ pd.results[j] # <<>>
    /\ pd.raw.present

\* C19: the primary dealer ingest sends the requests of all series without
\* waiting for responses: when the response of a series has been received,
\* the request of every series has been sent; the results are combined only
\* after all of them have completed.
C19_FanOut ==
    /\ \A k \in Series :
          pd.tasks[k] = "done" =>
              \A j \in Series : pd.tasks[j] \in {"in_flight", "done"}
    /\ pd.step = "scan" => \A k \in Series : pd.tasks[k] = "done"

\* C20: in transform-only mode no request is made and no capture and no
\* watermark is written, every table uploaded being built from the capture
\* found in the store; in ingest-only mode no table is validated, uploaded or
\* published; with no flag the ingest of every source runs and then the
\* transforms, every source with records being validated, uploaded and
\* published before main() returns.
C20_RunModes ==
    /\ (args = "transform_only" /\ pc.phase # "idle") =>
          \A s \in Sources :
              /\ run.fetches[s] = 0
              /\ run.saves[s] = 0
              /\ raw[s] = run.raw0[s]
              /\ state[s] = run.state0[s]
              /\ run.uploads[s] > 0 =>
                    uploaded[s][Len(uploaded[s])].table = Normalize(s, run.raw0[s])
    /\ args = "ingest_only" =>
          \A s \in Sources :
              ~run.tested[s] /\ run.uploads[s] = 0 /\ run.publishes[s] = 0
    /\ (args = "full" /\ pc = Done) =>
          \A s \in Sources :
              /\ run.ingested[s]
              /\ (raw[s].present /\ Normalize(s, raw[s]) # <<>>) =>
                    run.tested[s] /\ run.uploads[s] > 0 /\ run.publishes[s] > 0

\* A transform-only invocation published the table of a stored capture.
C20_Witness ==
    /\ args = "transform_only"
    /\ \E s \in Sources :
          /\ run.raw0[s].present
          /\ run.publishes[s] > 0
          /\ uploaded[s] # <<>>

DetailSources == {"ambs_operations", "treasury_operations"}
\* The rows of the table a transform built that come from operation a.
RowsOf(table, a) ==
    {k \in 1..Len(table) : table[k].operation_id = a.operationId}
AggregateRowFor(s) ==
    Running("transform", s, "test") =>
        \A i \in 1..Len(raw[s].items) :
            LET a == raw[s].items[i]
            IN  (a.auctionStatus = "Results" /\ a.details = <<>>) =>
                    /\ Cardinality(RowsOf(loc.table, a)) = 1
                    /\ \A k \in RowsOf(loc.table, a) :
                          loc.table[k].security_description = "Aggregate"
\* C22: for every source whose operations carry details, a "Results" operation
\* without details yields exactly one record, labelled "Aggregate", in the
\* table its transform builds; it never yields no record.
C22_AggregateRow == \A s \in DetailSources : AggregateRowFor(s)

\* ------------------------------------------------------------------- C23
\* The records the claim counts for one auction: max(1, number of details) for
\* a "Results" auction, none for any other status.
RecordsDue(a) ==
    IF a.auctionStatus # "Results" THEN 0
    ELSE IF Len(a.details) >= 1 THEN Len(a.details) ELSE 1
\* The records due for the first n auctions.
RECURSIVE RecordsDueUpTo(_, _)
RecordsDueUpTo(items, n) ==
    IF n = 0 THEN 0 ELSE RecordsDueUpTo(items, n - 1) + RecordsDue(items[n])
\* The table holds the records of each auction at the auction's place, the
\* details in their order.
InAuctionOrder(table, items) ==
    \A i \in 1..Len(items) :
        \A j \in 1..RecordsDue(items[i]) :
            LET row == table[RecordsDueUpTo(items, i - 1) + j]
            IN  /\ row.operation_id = items[i].operationId
                /\ row.security_description =
                      IF items[i].details = <<>> THEN "Aggregate"
                      ELSE items[i].details[j].securityDescription
\* strptime() of the operationDate of a "Results" auction raises.
UnparsableResultsDate(items) ==
    \E i \in 1..Len(items) :
        /\ items[i].auctionStatus = "Results"
        /\ ParseDateStrictRaises(items[i].operationDate)
C24_MalformedFieldNeverRaises ==
    \A s \in Sources : ~FailedAt(s, "normalize")

\* ------------------------------------------------------------------- C25
\* C25: the numeric parser of every normalizer returns null for None, the
\* empty string and "NA", strips thousands-separator commas before converting
\* (a text with commas parses to its number), and returns null for any text
\* that cannot be converted.
C25_NumericParsers ==
    (call.done /\ call.fn \in NumberParsers) =>
        /\ call.arg.fmt \in {"none", "empty", "na", "junk"} => call.out = NoneVal
        /\ call.arg.fmt = "commas" => call.out = Num(call.arg.val)

\* ------------------------------------------------------------------- C26
\* The value given to parse_bool is None or the empty string.
IsEmptyValue(v) == v.kind = "none" \/ v = Str(<<>>)
\* The original statement of C26: parse_bool returns true exactly for the
\* values whose lower-cased string form is "true", "1" or "yes", and null for
\* every other input.
C26_NullForOtherInputs ==
    (call.done /\ call.fn \in BoolParsers) =>
        IF ~IsEmptyValue(call.arg) /\ Lower(call.arg.text) \in TrueTexts
        THEN call.out = Bool(TRUE)
        ELSE call.out = NoneBool
\* C26: parse_bool returns null exactly for None and the empty string; for
\* every other value it returns true when the lower-cased string form is
\* "true", "1" or "yes", and false otherwise (so "false", "no" and "0" give
\* false, not null).
C26_ParseBool ==
    (call.done /\ call.fn \in BoolParsers) =>
        IF IsEmptyValue(call.arg) THEN call.out = NoneBool
        ELSE IF Lower(call.arg.text) \in TrueTexts THEN call.out = Bool(TRUE)
        ELSE call.out = Bool(FALSE)
\* parse_bool was called on the text "no" and returned false.
C26_Witness ==
    /\ call.done
    /\ call.fn = "utils.parse_bool"
    /\ call.arg = Str(<<"n", "o">>)
    /\ call.out = Bool(FALSE)

\* ------------------------------------------------------------------- C27
StorageCalls == {"load_state", "save_raw_json", "save_state", "load_raw_json"}
\* The source whose ingest or transform main() is running.
Current == Order[pc.idx]
\* C27: sources never share storage keys.  The names one source passes to the
\* state store and to the raw store are its own (no other source passes
\* them), its transform loads what its ingest saved, and every step of the
\* ingest or transform of a source leaves the watermark and the raw capture of
\* every other source unchanged.
C27_SourcesShareNoKeys ==
    /\ [](\A s, t \in Sources : \A c, d \in StorageCalls :
            /\ StorageKey(s, c) = StorageKey(s, d)
            /\ s # t => StorageKey(s, c) # StorageKey(t, d))
    /\ [][pc.phase \in {"ingest", "transform"} =>
            \A t \in Sources \ {Current} :
                state'[t] = state[t] /\ raw'[t] = raw[t]]_vars
\* The ingest of the Treasury operations has saved its capture while the AMBS
\* operations keep the capture and the watermark their ingest wrote.
C27_Witness ==
    /\ Running("ingest", "treasury_operations", "update")
    /\ raw["treasury_operations"].present
    /\ raw["ambs_operations"].items # <<>>
    /\ state["ambs_operations"] # NoneStr

\* ------------------------------------------------------------------- C28
\* The columns the test of each source declares not_null hold a value.
NoNullIn(s, row) ==
    CASE s = "ambs_operations" ->
           row.operation_date.some /\ row.operation_id # ""
      [] s = "treasury_operations" ->
           /\ row.operation_date.some
           /\ row.operation_id # ""
           /\ row.par_amount_accepted.some
      [] s = "reference_rates" ->
           row.date.some /\ row.rate_type # "" /\ row.rate.some
\* C28: every record a source's normalizer emits has non-null values in the
\* columns the source's test declares not_null, whatever the stored capture.
C28_EmittedRecordsNotNull ==
    \A s \in Sources :
        Running("transform", s, "test") =>
            \A k \in 1..Len(loc.table) : NoNullIn(s, loc.table[k])

\* ------------------------------------------------------------------- C29
IsPrefix(a, b) == Len(a) <= Len(b) /\ SubSeq(b, 1, Len(a)) = a
\* The date ranges of the chunks that have returned, in the order they did.
Ranges(chunks) == [i \in DOMAIN chunks |-> <<chunks[i][1], chunks[i][2]>>]
\* The first day no returned chunk covers.
NextUnfetched ==
    IF loc.chunks = <<>> THEN loc.start_date ELSE ChunkStop(Len(loc.chunks)) + 1
\* C29: within one source's range the chunks are fetched strictly
\* sequentially.  At most one request is in flight; a request is issued only
\* when none is in flight and no retry is pending, and it is the request of
\* the chunk right after the chunks that have returned; a response appends its
\* items and its chunk after those of the earlier chunks, so the results are
\* accumulated in chunk order.
C29_ChunksSequential ==
    /\ [](pc.phase = "ingest" =>
            /\ loc.in_flight \in {0, 1}
            /\ loc.in_flight = 1 => loc.current_start = NextUnfetched
            /\ \A i \in 1..(Len(loc.chunks) - 1) : ChunkStop(i) < ChunkStart(i + 1))
    /\ [][(pc.phase = "ingest" /\ pc' = pc) =>
            /\ IsPrefix(loc.items, loc'.items)
            /\ IsPrefix(Ranges(loc.chunks), Ranges(loc'.chunks))
            /\ Len(loc'.chunks) <= Len(loc.chunks) + 1
            /\ loc'.in_flight > loc.in_flight =>
                  /\ loc.in_flight = 0
                  /\ loc.attempt = 0
                  /\ loc.current_start = NextUnfetched
            /\ (Current \in Chunked /\ Len(loc'.chunks) > Len(loc.chunks)) =>
                  /\ loc.in_flight = 1
                  /\ loc'.in_flight = 0]_vars
\* The first chunk of the AMBS range has returned with items and the request
\* of the second chunk, already failed once, is in flight.
C29_Witness ==
    /\ Running("ingest", "ambs_operations", "loop")
    /\ Len(loc.chunks) = 1
    /\ loc.items # <<>>
    /\ loc.in_flight = 1
    /\ loc.attempt = 1

\* ------------------------------------------------------------------- C30
\* The range the claim states for source s: from the day after the watermark,
\* or from 2020-01-01 (2018-04-03 for the reference rates) without one, to
\* today (yesterday for the reference rates).
StatedStart(s) ==
    IF state[s].fmt = "iso" THEN state[s].day + 1
    ELSE IF s = "reference_rates" THEN RatesDefaultStart
    ELSE OperationsDefaultStart
StatedEnd(s) == IF s = "reference_rates" THEN today - 1 ELSE today
\* C30: the resolved range starts at watermark + 1 day when a watermark exists
\* and at the source's default date otherwise, and ends at today (yesterday
\* for the reference rates); the fetch loop is entered only when start <= end
\* (an ingest that returned early had start > end and requested nothing), and
\* every chunk requested lies in the range, so no date <= watermark is
\* requested again.
C30_ResolvedRange ==
    \A s \in Sources :
        /\ (InLoop /\ Current = s) =>
              /\ loc.start_date = StatedStart(s)
              /\ loc.end_date = StatedEnd(s)
              /\ StatedStart(s) <= StatedEnd(s)
              /\ loc.current_start >= StatedStart(s)
              /\ \A i \in 1..Len(loc.chunks) :
                    /\ ChunkStart(i) >= StatedStart(s)
                    /\ ChunkStop(i) <= StatedEnd(s)
                    /\ state[s].fmt = "iso" => ChunkStart(i) > state[s].day
        /\ run.empty[s] =>
              /\ StatedStart(s) > StatedEnd(s)
              /\ run.fetches[s] = 0
\* The reference rates, watermarked MaxMark, have had two chunks requested.
C30_Witness ==
    /\ Running("ingest", "reference_rates", "loop")
    /\ state["reference_rates"] = Iso(MaxMark)
    /\ Len(loc.chunks) >= 2
    /\ ChunkStart(1) = MaxMark + 1

\* ------------------------------------------------------------------- C31
\* C31: after an ingest that performed fetches, the raw capture of the source
\* is exactly what the loop accumulated from the responses of that run (as
\* many items as its fetches returned, in the order they were appended),
\* tagged with the resolved range; nothing of the previous capture remains.
C31_CaptureIsRunResults ==
    \A s \in Sources :
        Running("ingest", s, "update") =>
            /\ raw[s] = [present |-> TRUE,
                         items |-> loc.items,
                         secured |-> loc.secured,
                         start_date |-> Iso(StatedStart(s)),
                         end_date |-> Iso(StatedEnd(s))]
            /\ Len(raw[s].items) + Len(raw[s].secured) = run.got[s]
\* An ingest replaced a non-empty capture by the different, non-empty results
\* of its own fetches.
C31_Witness ==
    \E s \in Sources :
        /\ Running("ingest", s, "update")
        /\ run.raw0[s].items # <<>>
        /\ raw[s].items # <<>>
        /\ raw[s].items # run.raw0[s].items
        /\ run.fetches[s] >= 1

\* --- C32
\* The (series, week) observation the API returns for series k, as the
\* transform records it.
PdObservation(k) ==
    [week_ending |-> ParseDateUtils(PdRow.as_of), series_code |-> k]
PdPublishedSoFar(k) ==
    \E i \in DOMAIN pd.uploads :
        \E j \in DOMAIN pd.uploads[i] : pd.uploads[i][j] = PdObservation(k)

\* C32: treating a failed series as zero records loses no data: when a run
\* without flags has ended in which the fetch of a series succeeded that had
\* failed in an earlier run, no store having failed, the observation of that
\* series that the API returns has been published, also when the other series
\* advanced last_week in the run in which it failed.
C32_FailedSeriesLosesNoData ==
    \A k \in pd.missed :
        ( /\ pd.step \in {"done", "raised"}
          /\ pd.mode = "full"
          /\ faults = 0
          /\ Len(pd.results) = NumSeries
          /\ k \notin pd.failed )
            => PdPublishedSoFar(k)

\* --- C37
\* The transform of the primary dealer statistics has built its table.
PdTransformed ==
    \/ pd.step \in {"test", "upload", "publish"}
    \/ pd.step = "done" /\ pd.raw.present /\ pd.mode # "ingest_only"
\* The row is later than the last_week_filter of the stored capture (every row
\* is, when the capture has none).
PdLaterThanFilter(row) ==
    pd.raw.last_week_filter.fmt = "none"
    \/ Strptime(row.as_of) > pd.raw.last_week_filter.day

\* C37: the table of the primary dealer statistics holds exactly the rows of
\* the stored capture whose week_ending is strictly later than the watermark
\* in force at the start of the ingest that stored it (last_week_filter),
\* whatever the watermark is now, and what is uploaded is that table.
C37_FilterOfTheCapture ==
    PdTransformed =>
        /\ \A i \in DOMAIN pd.table :
              LET rows == pd.raw.series_data[pd.table[i].series_code]
              IN  \E j \in DOMAIN rows :
                      /\ PdLaterThanFilter(rows[j])
                      /\ pd.table[i].week_ending = Date(Strptime(rows[j].as_of))
        /\ \A k \in DOMAIN pd.raw.series_data :
              \A j \in DOMAIN pd.raw.series_data[k] :
                  PdLaterThanFilter(pd.raw.series_data[k][j]) =>
                      \E i \in DOMAIN pd.table :
                          /\ pd.table[i].series_code = k
                          /\ pd.table[i].week_ending
                                 = Date(Strptime(pd.raw.series_data[k][j].as_of))
        /\ pd.step = "publish" => pd.uploads[Len(pd.uploads)] = pd.table
\* A --transform-only run publishes the rows of a capture whose filter is
\* older than the watermark.
C37_Witness ==
    /\ pd.step = "publish"
    /\ pd.mode = "transform_only"
    /\ pd.table # <<>>
    /\ pd.raw.last_week_filter # pd.state
    /\ pd.state = PdRow.as_of

\* --- C33
\* What save_raw_json stores for the run in progress.
CaptureOfRun ==
    [present |-> TRUE, items |-> loc.items, secured |-> loc.secured,
     start_date |-> Strftime(loc.start_date), end_date |-> Strftime(loc.end_date)]

\* C33: within an ingest run the raw capture is written before the watermark:
\* once the write of the capture of a source has failed, the watermark of the
\* source is what it was when the run started, and a step that changes the
\* watermark of a source is taken when the capture of the run is already in
\* the store.
C33_CaptureBeforeWatermark ==
    /\ [](\A s \in Sources :
             (run.failed.src = s /\ run.failed.stage = "save_raw") =>
                 /\ state[s] = run.state0[s]
                 /\ run.saves[s] = 0)
    /\ [][\A s \in Sources :
             state'[s] # state[s] =>
                 /\ Running("ingest", s, "update")
                 /\ raw[s] = CaptureOfRun
                 /\ raw' = raw]_vars
\* The watermark of one source has advanced and the capture write of a later
\* source has failed.
C33_Witness ==
    \E s \in Sources :
        /\ run.saves[s] >= 1
        /\ state[s] # run.state0[s]
        /\ raw[s].present
        /\ run.failed.stage = "save_raw"
        /\ run.failed.src # s

\* --- C34
\* The transform of the source has done something in this run.
TransformActed(s) ==
    run.tested[s] \/ run.uploads[s] > 0 \/ run.publishes[s] > 0

\* C34: without flags the ingest of every source has returned before the
\* transform of any source starts: no table is validated, uploaded or
\* published before, main() enters the transforms only from the ingest of the
\* last source, and a run ended by an exception of an ingest has transformed
\* no source, those whose watermark the run advanced included.
C34_IngestPhaseFirst ==
    /\ [](args = "full" =>
            /\ (pc.phase = "transform" \/ \E s \in Sources : TransformActed(s)) =>
                   \A s \in Sources : run.ingested[s]
            /\ (pc = Failed /\ run.failed.stage \in {"fetch", "save_raw", "max_date", "save_state"}) =>
                   \A s \in Sources : ~TransformActed(s))
    /\ [][(pc.phase = "ingest" /\ pc'.phase = "transform") =>
              pc.idx = Len(Order) /\ pc'.idx = 1]_vars
\* A run without flags ended by an exception of an ingest after the watermark
\* of an earlier source had advanced.
C34_Witness ==
    /\ args = "full"
    /\ pc = Failed
    /\ run.failed.stage \in {"fetch", "save_raw", "save_state"}
    /\ \E s \in Sources :
          /\ s # run.failed.src
          /\ run.saves[s] >= 1
          /\ state[s] # run.state0[s]
          /\ raw[s].present /\ Normalize(s, raw[s]) # <<>>

\* --- C35
\* The capture is empty, or (operations) holds only entries whose status is
\* not "Results".
NothingToNormalize(s, cap) ==
    /\ cap.present
    /\ cap.secured = <<>>
    /\ IF s \in Chunked
       THEN \A i \in DOMAIN cap.items : cap.items[i].auctionStatus # "Results"
       ELSE cap.items = <<>>

\* C35: when the normalization of the stored capture of a source yields zero
\* records (an empty capture, or only entries that are not "Results"), the
\* transform returns to main() without calling test, upload_data or publish:
\* main() goes on with the next transform, nothing is uploaded or published,
\* and test is never called with an empty table.
C35_EmptyTransformReturns ==
    /\ [](\A s \in Sources : Running("transform", s, "test") => loc.table # <<>>)
    /\ [][\A s \in Sources :
             ( /\ Running("transform", s, "load")
               /\ raw[s].present
               /\ \/ NothingToNormalize(s, raw[s])
                  \/ (~NormalizeRaises(s, raw[s]) /\ Normalize(s, raw[s]) = <<>>) )
                 => /\ pc' = AfterTransform(pc.idx)
                    /\ run' = run
                    /\ uploaded' = uploaded
                    /\ published' = published]_vars
\* The transform of the operations returned over a capture holding only
\* entries that are not "Results", and main() went on to the next source.
C35_Witness ==
    /\ pc = At("transform", 3, "load")
    /\ feed = Order[2]
    /\ raw[feed].items # <<>>
    /\ NothingToNormalize(feed, raw[feed])
    /\ ~TransformActed(feed)
    /\ pc # Failed

\* --- C36
\* The latest asOfDate among the entries of the summary the API returned.
SomaLatest ==
    LET days == {soma.summary[i].asOfDate.day : i \in DOMAIN soma.summary}
    IN  Iso(CHOOSE d \in days : \A e \in days : e <= d)
SomaNoSummary == soma.latest_data # "summary" \/ soma.summary = <<>>

\* C36: when the SOMA ingest has returned, nothing was written if the summary
\* was missing or empty or if its latest asOfDate equals the watermark the run
\* loaded; otherwise the capture of that date was written and then the
\* watermark was set to it.  Every change of a store is one of these writes.
C36_SomaWrites ==
    /\ [](soma.step = "returned" =>
            IF SomaNoSummary
            THEN soma.writes = <<>> /\ soma.state = soma.last_date
            ELSE IF SomaLatest = soma.last_date
            THEN soma.writes = <<>> /\ soma.state = soma.last_date
            ELSE /\ soma.writes = <<"raw", "state">>
                 /\ soma.raw = [present |-> TRUE, summary |-> soma.summary,
                                as_of |-> SomaLatest]
                 /\ soma.state = SomaLatest)
    /\ [][(soma'.raw # soma.raw \/ soma'.state # soma.state) =>
              /\ Len(soma'.writes) = Len(soma.writes) + 1
              /\ soma'.raw # soma.raw => soma.writes = <<>>
              /\ soma'.state # soma.state => soma.writes = <<"raw">>]_vars
\* The ingest returned after replacing the capture and the watermark of an
\* older release.
C36_Witness ==
    /\ soma.step = "returned"
    /\ Truthy(soma.last_date)
    /\ soma.state # soma.last_date
    /\ soma.writes = <<"raw", "state">>
    /\ Len(soma.summary) = 2

====
